---- MODULE Spec2Model ----
(***************************************************************************)
(* Model of apppanel/durablelinks-core: link normalization, parameter      *)
(* hashing and the reuse-or-create engine of the durable-link service.     *)
(*                                                                         *)
(* Go strings are modelled as sequences of one-character strings; the two  *)
(* bytes 0x00 and 0x01 that ComputeParamsHash reserves are written "NUL"   *)
(* and "SOH".  A Go pointer field is an option: <<>> is nil and <<v>> is a *)
(* pointer to v.                                                           *)
(***************************************************************************)
EXTENDS Integers, Sequences, FiniteSets, TLC

(***************************************************************************)
(* Options (Go pointers)                                                   *)
(***************************************************************************)
None == <<>>

Some(v) == <<v>>

IsNil(o) == o = <<>>

Deref(o) == o[1]

(***************************************************************************)
(* Package strings                                                         *)
(***************************************************************************)
LowerLetters ==
  <<"a","b","c","d","e","f","g","h","i","j","k","l","m",
    "n","o","p","q","r","s","t","u","v","w","x","y","z">>

UpperLetters ==
  <<"A","B","C","D","E","F","G","H","I","J","K","L","M",
    "N","O","P","Q","R","S","T","U","V","W","X","Y","Z">>

Digits == <<"0","1","2","3","4","5","6","7","8","9">>

Range(s) == {s[i] : i \in 1..Len(s)}

LowerSet == Range(LowerLetters)

UpperSet == Range(UpperLetters)

DigitSet == Range(Digits)

IsLower(c) == c \in LowerSet

IsUpper(c) == c \in UpperSet

IsLetter(c) == IsLower(c) \/ IsUpper(c)

IsDigit(c) == c \in DigitSet

IsSpace(c) == c \in {" ", "\t", "\n", "\r"}

\* bytes below 0x20 (and 0x7f) among the symbols of the model
IsCTL(c) == c \in {"\t", "\n", "\r", "NUL", "SOH"}

PosIn(c, s) == CHOOSE i \in 1..Len(s) : s[i] = c

ToUpperChar(c) == IF IsLower(c) THEN UpperLetters[PosIn(c, LowerLetters)] ELSE c

ToLowerChar(c) == IF IsUpper(c) THEN LowerLetters[PosIn(c, UpperLetters)] ELSE c

ToUpper(s) == [i \in 1..Len(s) |-> ToUpperChar(s[i])]

ToLower(s) == [i \in 1..Len(s) |-> ToLowerChar(s[i])]

HasPrefix(s, p) == Len(s) >= Len(p) /\ SubSeq(s, 1, Len(p)) = p

HasSuffix(s, p) == Len(s) >= Len(p) /\ SubSeq(s, Len(s) - Len(p) + 1, Len(s)) = p

\* strings.Index, 1-based; 0 when sub does not occur
Index(s, sub) ==
  LET hits == {i \in 1..(Len(s) - Len(sub) + 1) : SubSeq(s, i, i + Len(sub) - 1) = sub}
  IN  IF hits = {} THEN 0 ELSE CHOOSE i \in hits : \A j \in hits : i <= j

\* strings.LastIndex, 1-based; 0 when sub does not occur
LastIndex(s, sub) ==
  LET hits == {i \in 1..(Len(s) - Len(sub) + 1) : SubSeq(s, i, i + Len(sub) - 1) = sub}
  IN  IF hits = {} THEN 0 ELSE CHOOSE i \in hits : \A j \in hits : i >= j

Contains(s, sub) == Index(s, sub) # 0

\* strings.Cut: the text before and after the first occurrence of sep
CutBefore(s, sep) ==
  IF Index(s, sep) = 0 THEN s ELSE SubSeq(s, 1, Index(s, sep) - 1)

CutAfter(s, sep) ==
  IF Index(s, sep) = 0 THEN <<>> ELSE SubSeq(s, Index(s, sep) + Len(sep), Len(s))

TrimSpace(s) ==
  LET keep == {i \in 1..Len(s) : ~IsSpace(s[i])}
  IN  IF keep = {} THEN <<>>
      ELSE SubSeq(s, CHOOSE i \in keep : \A j \in keep : i <= j,
                     CHOOSE i \in keep : \A j \in keep : i >= j)

(***************************************************************************)
(* Package net/url, for raw URLs without userinfo ("@"), IPv6 literals     *)
(* ("[") and percent escapes ("%"), which no input of the model contains.  *)
(***************************************************************************)
NoURL == [err |-> TRUE, Scheme |-> <<>>, Opaque |-> <<>>, Host |-> <<>>, Path |-> <<>>]

RECURSIVE getScheme(_, _)
\* url.getScheme: [err, scheme, rest]
getScheme(s, i) ==
  IF i > Len(s) THEN [err |-> FALSE, scheme |-> <<>>, rest |-> s]
  ELSE IF IsLetter(s[i]) THEN getScheme(s, i + 1)
  ELSE IF IsDigit(s[i]) \/ s[i] \in {"+", "-", "."}
       THEN IF i = 1 THEN [err |-> FALSE, scheme |-> <<>>, rest |-> s]
            ELSE getScheme(s, i + 1)
  ELSE IF s[i] = ":"
       THEN IF i = 1 THEN [err |-> TRUE, scheme |-> <<>>, rest |-> s]
            ELSE [err |-> FALSE, scheme |-> SubSeq(s, 1, i - 1),
                  rest |-> SubSeq(s, i + 1, Len(s))]
  ELSE [err |-> FALSE, scheme |-> <<>>, rest |-> s]

\* url.validOptionalPort: "" or ":" followed by digits only
validOptionalPort(port) ==
  \/ port = <<>>
  \/ /\ port[1] = ":"
     /\ \A i \in 2..Len(port) : IsDigit(port[i])

\* the characters url.parseHost accepts unescaped in a host name
validHostChar(c) ==
  \/ IsLetter(c) \/ IsDigit(c)
  \/ c \in {"-", "_", ".", "~", "!", "$", "&", "'", "(", ")", "*", "+", ",",
            ";", "=", ":", "[", "]", "<", ">", "\""}

\* url.parseHost (no IPv6 literal): TRUE when the authority is accepted
parseHostOK(host) ==
  /\ LastIndex(host, <<":">>) # 0
       => validOptionalPort(SubSeq(host, LastIndex(host, <<":">>), Len(host)))
  /\ \A i \in 1..Len(host) : validHostChar(host[i])

\* url.parse, the branch "//" authority: auth is the text up to the next "/"
parseAuthority(scheme, rest, auth) ==
  IF parseHostOK(auth)
  THEN [err |-> FALSE, Scheme |-> ToLower(scheme), Opaque |-> <<>>,
        Host |-> auth, Path |-> SubSeq(rest, 3 + Len(auth), Len(rest))]
  ELSE NoURL

\* url.parse after getScheme, rest being the text before "?"
parseRest(scheme, rest) ==
  IF ~HasPrefix(rest, <<"/">>) /\ scheme # <<>>
  THEN [err |-> FALSE, Scheme |-> ToLower(scheme), Opaque |-> rest,
        Host |-> <<>>, Path |-> <<>>]
  ELSE IF ~HasPrefix(rest, <<"/">>) /\ Contains(CutBefore(rest, <<"/">>), <<":">>)
  THEN NoURL
  ELSE IF HasPrefix(rest, <<"/", "/">>)
          /\ (scheme # <<>> \/ ~HasPrefix(rest, <<"/", "/", "/">>))
  THEN parseAuthority(scheme, rest, CutBefore(SubSeq(rest, 3, Len(rest)), <<"/">>))
  ELSE [err |-> FALSE, Scheme |-> ToLower(scheme), Opaque |-> <<>>,
        Host |-> <<>>, Path |-> rest]

\* url.parse on the result of getScheme
parseScheme(sch) ==
  IF sch.err THEN NoURL ELSE parseRest(sch.scheme, CutBefore(sch.rest, <<"?">>))

\* url.parse: u is the raw URL without its fragment
parse(u) ==
  IF \E i \in 1..Len(u) : IsCTL(u[i]) THEN NoURL
  ELSE IF u = <<>> THEN [NoURL EXCEPT !.err = FALSE]
  ELSE parseScheme(getScheme(u, 1))

\* url.Parse
Parse(rawURL) == parse(CutBefore(rawURL, <<"#">>))

\* (*URL).Hostname: the host without a valid port
Hostname(u) ==
  LET colon == LastIndex(u.Host, <<":">>)
  IN  IF colon # 0 /\ validOptionalPort(SubSeq(u.Host, colon, Len(u.Host)))
      THEN SubSeq(u.Host, 1, colon - 1)
      ELSE u.Host

(***************************************************************************)
(* Package utils                                                           *)
(***************************************************************************)
\* utils.IsURL on the parsed URL
hasSchemeAndHost(u) == ~u.err /\ u.Scheme # <<>> /\ u.Host # <<>>

\* utils.IsURL
IsURL(str) == hasSchemeAndHost(Parse(str))

\* utils.CleanHost on the parsed URL
hostOfParsed(u) ==
  IF u.err THEN [err |-> "parse", host |-> <<>>]
  ELSE [err |-> "", host |-> Hostname(u)]

\* utils.CleanHost on the trimmed text
cleanTrimmed(trimmed) ==
  IF trimmed = <<>> THEN [err |-> "host is required", host |-> <<>>]
  ELSE hostOfParsed(Parse(IF Contains(trimmed, <<":", "/", "/">>) THEN trimmed
                          ELSE <<"h", "t", "t", "p", "s", ":", "/", "/">> \o trimmed))

\* utils.CleanHost: [err, host]
CleanHost(raw) == cleanTrimmed(TrimSpace(raw))

hostInAllowList_Suffix(allowList, u) ==
  /\ ~u.err
  /\ \E i \in 1..Len(allowList) :
        HasSuffix(ToLower(Hostname(u)), ToLower(TrimSpace(allowList[i])))

\* utils.IsDomainAllowed on the parsed link
hostInAllowList(allowList, u) ==
  /\ ~u.err
  /\ \E i \in 1..Len(allowList) :
        ToLower(Hostname(u)) = ToLower(TrimSpace(allowList[i]))

\* utils.IsDomainAllowed
IsDomainAllowed(allowList, rawLink) == hostInAllowList(allowList, Parse(rawLink))

(***************************************************************************)
(* Package models                                                          *)
(***************************************************************************)
\* models.DurableLink with every optional field nil; the nested parameter
\* groups are flattened and the fields keep their Go names
EmptyDurableLink ==
  [Host |-> <<>>, Link |-> <<>>,
   AndroidPackageName |-> None, AndroidFallbackLink |-> None,
   AndroidMinPackageVersionCode |-> None,
   IOSFallbackLink |-> None, IOSIpadFallbackLink |-> None, IOSAppStoreId |-> None,
   FallbackURL |-> None,
   SocialTitle |-> None, SocialDescription |-> None, SocialImageLink |-> None,
   UtmSource |-> None, UtmMedium |-> None, UtmCampaign |-> None,
   UtmTerm |-> None, UtmContent |-> None,
   Pt |-> None, At |-> None, Ct |-> None, Mt |-> None]

RECURSIVE DecDigits(_)
DecDigits(n) ==
  IF n < 10 THEN <<Digits[n + 1]>> ELSE DecDigits(n \div 10) \o <<Digits[(n % 10) + 1]>>

\* fmt.Sprintf("%d", n)
FormatInt(n) == IF n < 0 THEN <<"-">> \o DecDigits(0 - n) ELSE DecDigits(n)

\* fmt.Sprintf(format, args...): the format and the formatted arguments
Sprintf(format, args) == <<format>> \o args

\* nil rendered as the empty string
stringPtrOrEmpty_NilAsEmpty(s) == IF IsNil(s) THEN <<>> ELSE Deref(s)

stringPtrOrEmpty(s) == IF IsNil(s) THEN <<"SOH">> ELSE Deref(s)

int64PtrToString(i) == IF IsNil(i) THEN <<"SOH">> ELSE FormatInt(Deref(i))

\* the parts list of ComputeParamsHash, in the order the code appends them
ParamsParts(db) ==
  << stringPtrOrEmpty(db.AndroidPackageName),
     stringPtrOrEmpty(db.AndroidFallbackLink),
     stringPtrOrEmpty(db.AndroidMinVersion),
     stringPtrOrEmpty(db.IOSFallbackLink),
     stringPtrOrEmpty(db.IOSIpadFallbackLink),
     int64PtrToString(db.IOSAppStoreID),
     stringPtrOrEmpty(db.SocialTitle),
     stringPtrOrEmpty(db.SocialDescription),
     stringPtrOrEmpty(db.SocialImageLink),
     stringPtrOrEmpty(db.UtmSource),
     stringPtrOrEmpty(db.UtmMedium),
     stringPtrOrEmpty(db.UtmCampaign),
     stringPtrOrEmpty(db.UtmTerm),
     stringPtrOrEmpty(db.UtmContent),
     stringPtrOrEmpty(db.ItunesPt),
     stringPtrOrEmpty(db.ItunesAt),
     stringPtrOrEmpty(db.ItunesCt),
     stringPtrOrEmpty(db.ItunesMt),
     stringPtrOrEmpty(db.OtherFallbackURL) >>

RECURSIVE JoinNUL(_, _)
\* the loop that builds `combined`: parts i..n joined with "\x00"
JoinNUL(parts, i) ==
  IF i > Len(parts) THEN <<>>
  ELSE (IF i > 1 THEN <<"NUL">> ELSE <<>>) \o parts[i] \o JoinNUL(parts, i + 1)

\* the byte string that ComputeParamsHash digests
CanonicalParams(db) == JoinNUL(ParamsParts(db), 1)

\* sha256.Sum256 rendered with %x, taken as collision-free: the digest of a
\* byte string is that byte string under the tag "sha256"
Sha256Hex(bytes) == <<"sha256">> \o bytes

ComputeParamsHash_WithHost(db) == Sha256Hex(db.Host \o <<"NUL">> \o CanonicalParams(db))

\* DurableLinkDB.ComputeParamsHash
ComputeParamsHash(db) == Sha256Hex(CanonicalParams(db))

\* models.FromDurableLink; ParamsHash is left empty for the BeforeCreate hook
FromDurableLink(dl, host, path, isUnguessable, projectID) ==
  [ID |-> 0, Host |-> host, Path |-> path, Link |-> dl.Link,
   IsUnguessablePath |-> isUnguessable, ProjectID |-> projectID,
   AndroidPackageName |-> dl.AndroidPackageName,
   AndroidFallbackLink |-> dl.AndroidFallbackLink,
   AndroidMinVersion |-> dl.AndroidMinPackageVersionCode,
   IOSFallbackLink |-> dl.IOSFallbackLink,
   IOSIpadFallbackLink |-> dl.IOSIpadFallbackLink,
   IOSAppStoreID |-> dl.IOSAppStoreId,
   SocialTitle |-> dl.SocialTitle,
   SocialDescription |-> dl.SocialDescription,
   SocialImageLink |-> dl.SocialImageLink,
   UtmSource |-> dl.UtmSource, UtmMedium |-> dl.UtmMedium,
   UtmCampaign |-> dl.UtmCampaign, UtmTerm |-> dl.UtmTerm,
   UtmContent |-> dl.UtmContent,
   ItunesPt |-> dl.Pt, ItunesAt |-> dl.At, ItunesCt |-> dl.Ct, ItunesMt |-> dl.Mt,
   OtherFallbackURL |-> dl.FallbackURL,
   ParamsHash |-> <<>>]

BeforeCreate_NoHook(db) == db

\* DurableLinkDB.BeforeCreate, the hook gorm runs on Create
BeforeCreate(db) == [db EXCEPT !.ParamsHash = ComputeParamsHash(db)]

(***************************************************************************)
(* Package service: normalization                                          *)
(***************************************************************************)
Warning(code, message) == [WarningCode |-> code, WarningMessage |-> message]

\* the option compared as it was received, without strings.ToUpper
validateSuffixOption_CaseSensitive(suffix) ==
  IF suffix.Option # <<"S","H","O","R","T">>
     /\ suffix.Option # <<"U","N","G","U","E","S","S","A","B","L","E">>
  THEN [shortPath |-> FALSE,
        warning |-> Some(Warning("INVALID_SUFFIX_OPTION",
           Sprintf("Param 'suffix.option' must be 'SHORT' or 'UNGUESSABLE'. Received '%s', defaulting to 'UNGUESSABLE'.",
                   <<suffix.Option>>)))]
  ELSE IF suffix.Option = <<"U","N","G","U","E","S","S","A","B","L","E">>
  THEN [shortPath |-> FALSE, warning |-> None]
  ELSE [shortPath |-> TRUE, warning |-> None]

\* validateSuffixOption: [shortPath, warning]
validateSuffixOption(suffix) ==
  LET option == ToUpper(suffix.Option)
  IN  IF option # <<"S","H","O","R","T">>
         /\ option # <<"U","N","G","U","E","S","S","A","B","L","E">>
      THEN [shortPath |-> FALSE,
            warning |-> Some(Warning("INVALID_SUFFIX_OPTION",
               Sprintf("Param 'suffix.option' must be 'SHORT' or 'UNGUESSABLE'. Received '%s', defaulting to 'UNGUESSABLE'.",
                       <<suffix.Option>>)))]
      ELSE IF option = <<"U","N","G","U","E","S","S","A","B","L","E">>
      THEN [shortPath |-> FALSE, warning |-> None]
      ELSE [shortPath |-> TRUE, warning |-> None]

\* the closure without its test for the empty string
addUnrecognizedWarning_NonNil(paramName, paramValue, missingParam) ==
  IF ~IsNil(paramValue)
  THEN <<Warning("UNRECOGNIZED_PARAM",
                 Sprintf("Param '%s' is not needed, since '%s' is not specified.",
                         <<paramName, missingParam>>))>>
  ELSE <<>>

\* the closure addUnrecognizedWarning: the warnings it appends
addUnrecognizedWarning(paramName, paramValue, missingParam) ==
  IF ~IsNil(paramValue) /\ Deref(paramValue) # <<>>
  THEN <<Warning("UNRECOGNIZED_PARAM",
                 Sprintf("Param '%s' is not needed, since '%s' is not specified.",
                         <<paramName, missingParam>>))>>
  ELSE <<>>

\* the guard of the closure validateAndClearInvalidURL
invalidURL(url) == ~IsNil(url) /\ Deref(url) # <<>> /\ ~IsURL(Deref(url))

\* the closure validateAndClearInvalidURL: the warnings it appends
malformedWarning(url, jsonFieldName) ==
  IF invalidURL(url)
  THEN <<Warning("MALFORMED_PARAM", Sprintf("Param '%s' is not a valid URL", <<jsonFieldName>>))>>
  ELSE <<>>

\* the field left as it was received
clearInvalidURL_Keep(url) == url

\* the closure validateAndClearInvalidURL: the value it leaves in the field
clearInvalidURL(url) == IF invalidURL(url) THEN None ELSE url

\* validateLinkParameters, lines 159-163: the record after the five calls
clearInvalidURLs(dl0) ==
  [dl0 EXCEPT
     !.AndroidFallbackLink = clearInvalidURL(dl0.AndroidFallbackLink),
     !.IOSFallbackLink     = clearInvalidURL(dl0.IOSFallbackLink),
     !.IOSIpadFallbackLink = clearInvalidURL(dl0.IOSIpadFallbackLink),
     !.FallbackURL         = clearInvalidURL(dl0.FallbackURL),
     !.SocialImageLink     = clearInvalidURL(dl0.SocialImageLink)]

\* validateLinkParameters, lines 159-163: the warnings of the five calls
urlWarnings(dl0) ==
     malformedWarning(dl0.AndroidFallbackLink, "androidFallbackLink")
  \o malformedWarning(dl0.IOSFallbackLink, "iosFallbackLink")
  \o malformedWarning(dl0.IOSIpadFallbackLink, "iosIpadFallbackLink")
  \o malformedWarning(dl0.FallbackURL, "fallbackUrl")
  \o malformedWarning(dl0.SocialImageLink, "socialImageLink")

\* validateLinkParameters, lines 169-174
isiWarnings(dl) ==
  IF IsNil(dl.IOSAppStoreId)
  THEN    addUnrecognizedWarning("at", dl.At, "isi")
       \o addUnrecognizedWarning("ct", dl.Ct, "isi")
       \o addUnrecognizedWarning("mt", dl.Mt, "isi")
       \o addUnrecognizedWarning("pt", dl.Pt, "isi")
  ELSE <<>>

\* validateLinkParameters, lines 176-180
ptWarnings(dl) ==
  IF IsNil(dl.Pt) \/ Deref(dl.Pt) = <<>>
  THEN    addUnrecognizedWarning("at", dl.At, "pt")
       \o addUnrecognizedWarning("ct", dl.Ct, "pt")
       \o addUnrecognizedWarning("mt", dl.Mt, "pt")
  ELSE <<>>

\* the cross-field warnings appended before the URL warnings
crossFieldChecks_First(dl, warnings) ==
  [dl |-> dl, warnings |-> isiWarnings(dl) \o ptWarnings(dl) \o warnings]

\* validateLinkParameters, lines 165-182: the cross-field checks on the
\* cleared record, appending to the warnings of the URL checks
crossFieldChecks(dl, warnings) ==
  [dl |-> dl, warnings |-> warnings \o isiWarnings(dl) \o ptWarnings(dl)]

\* validateLinkParameters: [dl, warnings], dl being the record it mutates
validateLinkParameters(dl0) == crossFieldChecks(clearInvalidURLs(dl0), urlWarnings(dl0))

\* the tenant's App Store ID put in place of whatever the caller sent
applyDefaultIOSAppStoreId_Always(st, tenantCfg) ==
  IF ~IsNil(tenantCfg.DefaultIOSAppStoreId)
  THEN [dl |-> [st.dl EXCEPT !.IOSAppStoreId = tenantCfg.DefaultIOSAppStoreId],
        warnings |-> Append(st.warnings,
           Warning("DEFAULT_APPLIED",
                   Sprintf("Using default iOS App Store ID: %d",
                           <<FormatInt(Deref(tenantCfg.DefaultIOSAppStoreId))>>)))]
  ELSE st

\* CreateDurableLink, lines 89-95; st is [dl, warnings]
applyDefaultIOSAppStoreId(st, tenantCfg) ==
  IF IsNil(st.dl.IOSAppStoreId) /\ ~IsNil(tenantCfg.DefaultIOSAppStoreId)
  THEN [dl |-> [st.dl EXCEPT !.IOSAppStoreId = tenantCfg.DefaultIOSAppStoreId],
        warnings |-> Append(st.warnings,
           Warning("DEFAULT_APPLIED",
                   Sprintf("Using default iOS App Store ID: %d",
                           <<FormatInt(Deref(tenantCfg.DefaultIOSAppStoreId))>>)))]
  ELSE st

\* CreateDurableLink, lines 97-103
applyDefaultAndroidPackage(st, tenantCfg) ==
  IF IsNil(st.dl.AndroidPackageName) /\ ~IsNil(tenantCfg.DefaultAndroidPackage)
  THEN [dl |-> [st.dl EXCEPT !.AndroidPackageName = tenantCfg.DefaultAndroidPackage],
        warnings |-> Append(st.warnings,
           Warning("DEFAULT_APPLIED",
                   Sprintf("Using default Android package name: %s",
                           <<Deref(tenantCfg.DefaultAndroidPackage)>>)))]
  ELSE st

\* CreateDurableLink, line 106: warnings = append(warnings, validationWarnings...)
appendValidationWarnings(warnings, v) ==
  [dl |-> v.dl, warnings |-> warnings \o v.warnings]

\* CreateDurableLink, lines 105-106
validateStep(st) == appendValidationWarnings(st.warnings, validateLinkParameters(st.dl))

\* CreateDurableLink, lines 108-111
suffixStep(st, sfx) ==
  [dl |-> st.dl, shortPath |-> sfx.shortPath, warnings |-> st.warnings \o sfx.warning]

\* CreateDurableLink, lines 86-111: tenant defaults, validation and suffix;
\* [dl, shortPath, warnings]
Normalize(params, tenantCfg) ==
  suffixStep(
    validateStep(
      applyDefaultAndroidPackage(
        applyDefaultIOSAppStoreId([dl |-> params.DurableLinkInfo, warnings |-> <<>>],
                                  tenantCfg),
        tenantCfg)),
    validateSuffixOption(params.Suffix))

Alphanumeric == LowerLetters \o UpperLetters \o Digits

\* generateDurableLinkPath, given the bytes rand.Read produced
generateDurableLinkPath(bytes) ==
  [i \in 1..Len(bytes) |-> Alphanumeric[(bytes[i] % Len(Alphanumeric)) + 1]]

\* fmt.Sprintf("%s://%s/%s", tenantCfg.URLScheme, host, path)
FullLink(scheme, host, path) == scheme \o <<":", "/", "/">> \o host \o <<"/">> \o path

(***************************************************************************)
(* Package repository over the table apppanel_durable_links.  The table is *)
(* the sequence store of its rows in insertion order; ids are assigned by  *)
(* autoincrement, so row i has ID i.                                       *)
(***************************************************************************)
VARIABLES store, pending, hist, probe

vars == <<store, pending, hist, probe>>

\* FindExistingShortLink without the condition is_unguessable_path = false
FindExistingShortLink_AnyPathKind(rows, host, link, projectID) ==
  LET dbLink     == FromDurableLink(link, <<>>, <<>>, FALSE, None)
      paramsHash == ComputeParamsHash(dbLink)
      hits == {i \in 1..Len(rows) :
                 /\ rows[i].Host = host
                 /\ rows[i].Link = link.Link
                 /\ rows[i].ParamsHash = paramsHash
                 /\ rows[i].ProjectID = projectID}
  IN  IF hits = {} THEN [found |-> FALSE, path |-> <<>>]
      ELSE [found |-> TRUE,
            path |-> rows[CHOOSE i \in hits : \A j \in hits : i <= j].Path]

FindExistingShortLink_AnyTenant(rows, host, link, projectID) ==
  LET dbLink     == FromDurableLink(link, <<>>, <<>>, FALSE, None)
      paramsHash == ComputeParamsHash(dbLink)
      hits == {i \in 1..Len(rows) :
                 /\ rows[i].Host = host
                 /\ rows[i].Link = link.Link
                 /\ rows[i].ParamsHash = paramsHash
                 /\ rows[i].IsUnguessablePath = FALSE}
  IN  IF hits = {} THEN [found |-> FALSE, path |-> <<>>]
      ELSE [found |-> TRUE,
            path |-> rows[CHOOSE i \in hits : \A j \in hits : i <= j].Path]

\* linkRepository.FindExistingShortLink: [found, path]; First orders by the
\* primary key, so the matching row with the lowest id is returned
FindExistingShortLink(rows, host, link, projectID) ==
  LET dbLink     == FromDurableLink(link, <<>>, <<>>, FALSE, None)
      paramsHash == ComputeParamsHash(dbLink)
      hits == {i \in 1..Len(rows) :
                 /\ rows[i].Host = host
                 /\ rows[i].Link = link.Link
                 /\ rows[i].ParamsHash = paramsHash
                 /\ rows[i].IsUnguessablePath = FALSE
                 /\ rows[i].ProjectID = projectID}
  IN  IF hits = {} THEN [found |-> FALSE, path |-> <<>>]
      ELSE [found |-> TRUE,
            path |-> rows[CHOOSE i \in hits : \A j \in hits : i <= j].Path]

UniqueViolation_Never(rows, row) == FALSE

\* the constraints unique_multi_tenant and unique_single_tenant
UniqueViolation(rows, row) ==
  \E i \in 1..Len(rows) :
     /\ rows[i].ProjectID = row.ProjectID
     /\ rows[i].Host = row.Host
     /\ rows[i].Path = row.Path

\* the unique index idx_host_path of the gorm model: host and path, whatever
\* the tenant
HostPathTaken(rows, row) ==
  \E i \in 1..Len(rows) :
     /\ rows[i].Host = row.Host
     /\ rows[i].Path = row.Path

\* linkRepository.CreateShortLink up to the INSERT: the row gorm sends
RowToInsert(rows, link, projectID) ==
  BeforeCreate([link EXCEPT
                  !.ProjectID = IF IsNil(projectID) THEN link.ProjectID ELSE projectID,
                  !.ID = Len(rows) + 1])

(***************************************************************************)
(* Package service: the requests in flight.  Calls are numbered in the     *)
(* order they enter CreateDurableLink; pending holds the calls that are    *)
(* between their reuse lookup and their INSERT, hist the calls that have   *)
(* returned, in the order they returned.                                   *)
(***************************************************************************)
MaxCalls == 3

\* the allow-list check made before the host check
RequiredFieldError_AllowListFirst(params, tenantCfg) ==
  IF ~IsDomainAllowed(tenantCfg.DomainAllowList, params.DurableLinkInfo.Link)
  THEN <<"domain link not in allow list">>
  ELSE IF CleanHost(params.DurableLinkInfo.Host).err # ""
  THEN <<"invalid host: %w", CleanHost(params.DurableLinkInfo.Host).err>>
  ELSE <<>>

\* a malformed social image link treated as a required-field failure
RequiredFieldError_RejectsMalformed(params, tenantCfg) ==
  IF CleanHost(params.DurableLinkInfo.Host).err # ""
  THEN <<"invalid host: %w", CleanHost(params.DurableLinkInfo.Host).err>>
  ELSE IF ~IsDomainAllowed(tenantCfg.DomainAllowList, params.DurableLinkInfo.Link)
  THEN <<"domain link not in allow list">>
  ELSE IF invalidURL(params.DurableLinkInfo.SocialImageLink)
  THEN <<"malformed socialImageLink">>
  ELSE <<>>

\* the two required-field checks of CreateDurableLink: the error returned, <<>> for none
RequiredFieldError(params, tenantCfg) ==
  IF CleanHost(params.DurableLinkInfo.Host).err # ""
  THEN <<"invalid host: %w", CleanHost(params.DurableLinkInfo.Host).err>>
  ELSE IF ~IsDomainAllowed(tenantCfg.DomainAllowList, params.DurableLinkInfo.Link)
  THEN <<"domain link not in allow list">>
  ELSE <<>>

\* the response keeps the warnings list it was built with
SetWarnings_KeepOwn(response, warnings) == response

\* response.Warnings = warnings
SetWarnings(response, warnings) == [response EXCEPT !.Warnings = warnings]

\* the record of a call that has returned: what it was given, what it
\* returned (resp is None for a nil response) and what it did to storage;
\* seen is the number of calls that had returned when this one was entered
Returned(id, args, outcome, err, resp, path, seen, lookups, inserts, rowID) ==
  [args |-> args, outcome |-> outcome, err |-> err, resp |-> resp,
   path |-> path, seen |-> seen, lookups |-> lookups, inserts |-> inserts,
   rowID |-> rowID]

Started == Len(hist) + Cardinality(pending)

\* the call returns: its record joins the history
Return(others, rec) ==
  /\ hist' = Append(hist, rec)
  /\ pending' = others
  /\ UNCHANGED probe

\* createOrGetShortLink has passed its lookup: the call is in flight until
\* its INSERT
Proceed(id, args, others, host, n, lookups) ==
  /\ pending' = others \cup
                {[id |-> id, pc |-> "store", args |-> args, host |-> host,
                  link |-> n.dl, shortPath |-> n.shortPath,
                  warnings |-> n.warnings, seen |-> Len(hist),
                  lookups |-> lookups]}
  /\ UNCHANGED <<store, hist, probe>>

lookupError_Wrapped(err) == <<"failed to find link: %w">> \o err

\* createOrGetShortLink, line 206: the error of the lookup is returned as it is
lookupError(err) == err

\* createOrGetShortLink, lines 193-208, found being what the lookup returned
Reuse(id, args, others, host, n, found) ==
  \/ /\ found.found
     /\ UNCHANGED store
     /\ Return(others,
               Returned(id, args, "Reused", <<>>,
                        Some(SetWarnings([ShortLink |-> FullLink(args.tenantCfg.URLScheme, host, found.path),
                                          Warnings |-> <<>>], n.warnings)),
                        found.path, Len(hist), 1, 0, 0))
  \/ /\ ~found.found
     /\ Proceed(id, args, others, host, n, 1)
  \/ \* the lookup fails with a storage error other than not-found
     /\ UNCHANGED store
     /\ Return(others,
               Returned(id, args, "Failed", lookupError(<<"db error">>), None, <<>>,
                        Len(hist), 1, 0, 0))

Lookup_Always(id, args, others, host, n) ==
  Reuse(id, args, others, host, n,
        FindExistingShortLink(store, host, n.dl, args.projectID))

\* CreateDurableLink after its two required-field checks, up to the lookup
\* of createOrGetShortLink; n is the normalized request
Lookup(id, args, others, host, n) ==
  IF n.shortPath
  THEN Reuse(id, args, others, host, n,
             FindExistingShortLink(store, host, n.dl, args.projectID))
  ELSE Proceed(id, args, others, host, n, 0)

\* CreateDurableLink, lines 71-84, fatal being the error of the two checks
Reject(id, args, others, fatal) ==
  /\ UNCHANGED store
  /\ Return(others, Returned(id, args, "Failed", fatal, None, <<>>, Len(hist), 0, 0, 0))

\* CreateDurableLink from its entry to the reuse lookup of createOrGetShortLink,
\* for the call numbered id
Run(id, args, others) ==
  IF RequiredFieldError(args.params, args.tenantCfg) # <<>>
  THEN Reject(id, args, others, RequiredFieldError(args.params, args.tenantCfg))
  ELSE Lookup(id, args, others,
              CleanHost(args.params.DurableLinkInfo.Host).host,
              Normalize(args.params, args.tenantCfg))

\* the random bytes rand.Read may deliver: 0 and 62 both map to "a", 1 to "b",
\* 2 to "c"
RandomBytes == {0, 1, 2, 62}

Insert_Upsert(me, path, row) ==
  /\ store' = IF UniqueViolation(store, row)
               THEN [i \in 1..Len(store) |->
                       IF /\ store[i].ProjectID = row.ProjectID
                          /\ store[i].Host = row.Host
                          /\ store[i].Path = row.Path
                       THEN [row EXCEPT !.ID = i] ELSE store[i]]
               ELSE Append(store, row)
  /\ Return(pending \ {me},
            Returned(me.id, me.args, "Created", <<>>,
                     Some(SetWarnings([ShortLink |-> FullLink(me.args.tenantCfg.URLScheme, me.host, path),
                                       Warnings |-> <<>>], me.warnings)),
                     path, me.seen, me.lookups, 1, row.ID))

\* createOrGetShortLink, lines 223-233: the INSERT of row and the return
Insert(me, path, row) ==
  \/ /\ ~UniqueViolation(store, row)
     /\ store' = Append(store, row)
     /\ Return(pending \ {me},
               Returned(me.id, me.args, "Created", <<>>,
                        Some(SetWarnings([ShortLink |-> FullLink(me.args.tenantCfg.URLScheme, me.host, path),
                                          Warnings |-> <<>>], me.warnings)),
                        path, me.seen, me.lookups, 1, row.ID))
  \/ \* rejected by the constraints of the table, or by the index of the
     \* model where the table was migrated from it
     /\ UniqueViolation(store, row) \/ HostPathTaken(store, row)
     /\ UNCHANGED store
     /\ Return(pending \ {me},
               Returned(me.id, me.args, "Failed",
                        <<"failed to store link: %w", "unique violation">>,
                        None, <<>>, me.seen, me.lookups, 1, 0))
  \/ \* the INSERT fails with another storage error
     /\ UNCHANGED store
     /\ Return(pending \ {me},
               Returned(me.id, me.args, "Failed",
                        <<"failed to store link: %w", "db error">>,
                        None, <<>>, me.seen, me.lookups, 1, 0))

\* createOrGetShortLink, lines 214-222: the generated path and the row sent
Generate(me, path) ==
  \E row \in {RowToInsert(store,
                           FromDurableLink(me.link, me.host, path, ~me.shortPath,
                                           me.args.projectID),
                           me.args.projectID)} :
     Insert(me, path, row)

pathLength_Swapped(shortPath, tenantCfg) ==
  IF ~shortPath THEN tenantCfg.ShortPathLength ELSE tenantCfg.UnguessablePathLength

\* createOrGetShortLink, lines 210-213: the length handed to
\* generateDurableLinkPath
pathLength(shortPath, tenantCfg) ==
  IF ~shortPath THEN tenantCfg.UnguessablePathLength ELSE tenantCfg.ShortPathLength

\* createOrGetShortLink, lines 210-234, for a call in flight
StoreLink(me) ==
  /\ me.pc = "store"
  /\ \E bytes \in [1..pathLength(me.shortPath, me.args.tenantCfg) -> RandomBytes] :
        Generate(me, generateDurableLinkPath(bytes))

(***************************************************************************)
(* Requests                                                                *)
(***************************************************************************)
Str_https == <<"h","t","t","p","s">>

HostA == <<"a",".","i","o">>

LinkAllowed == <<"h","t","t","p",":","/","/","a",".","i","o","/","t">>

LinkDenied == <<"h","t","t","p",":","/","/","b",".","i","o","/","t">>

GoodURL == <<"h","t","t","p",":","/","/","x">>

BadURL == <<"b","a","d">>

SHORT == <<"S","H","O","R","T">>

UNGUESSABLE == <<"U","N","G","U","E","S","S","A","B","L","E">>

PlainConfig ==
  [URLScheme |-> Str_https, DomainAllowList |-> <<HostA>>, ShortPathLength |-> 1,
   UnguessablePathLength |-> 2, DefaultIOSAppStoreId |-> None,
   DefaultAndroidPackage |-> None]

DefaultsConfig ==
  [PlainConfig EXCEPT !.DefaultIOSAppStoreId = Some(42),
                      !.DefaultAndroidPackage = Some(<<"p","k","g">>)]

\* a tenant whose unguessable paths are as long as its short paths
EqualLengthConfig == [PlainConfig EXCEPT !.UnguessablePathLength = 1]

PlainLink == [EmptyDurableLink EXCEPT !.Host = HostA, !.Link = LinkAllowed]

Request(dl, option) == [DurableLinkInfo |-> dl, Suffix |-> [Option |-> option]]

Args(params, projectID, cfg) == [params |-> params, projectID |-> projectID, tenantCfg |-> cfg]

\* the calls of the engine specification
EngineInputs ==
  { Args(Request(PlainLink, SHORT), None, PlainConfig),
    Args(Request(PlainLink, UNGUESSABLE), None, EqualLengthConfig),
    Args(Request(PlainLink, SHORT), Some("t1"), PlainConfig) }

NoProbe == <<>>

\* a caller invokes CreateDurableLink
CreateDurableLink ==
  /\ Started < MaxCalls
  /\ \E args \in EngineInputs : Run(Started + 1, args, pending)

Init ==
  /\ store = <<>>
  /\ pending = {}
  /\ hist = <<>>
  /\ probe = NoProbe

Next == CreateDurableLink \/ \E me \in pending : StoreLink(me)

\* concurrent callers of CreateDurableLink over one table
Spec == Init /\ [][Next]_vars

(***************************************************************************)
(* One request at a time, over the requests that exercise normalization:   *)
(* a first call that seeds the table, then one call drawn from             *)
(* ValidationInputs.                                                       *)
(***************************************************************************)
Token == <<"x">>

DefaultsConfigs ==
  { PlainConfig, DefaultsConfig,
    [PlainConfig EXCEPT !.DefaultIOSAppStoreId = Some(42)],
    [PlainConfig EXCEPT !.DefaultAndroidPackage = Some(<<"p","k","g">>)] }

SuffixOptions ==
  { SHORT, UNGUESSABLE, <<"s","h","o","r","t">>,
    <<"U","n","G","u","e","s","s","a","b","l","e">>, <<>> }

\* the five URL fields: absent, empty, malformed, well-formed
UrlLinks ==
  { [PlainLink EXCEPT !.AndroidFallbackLink = afl, !.IOSFallbackLink = ifl,
                      !.IOSIpadFallbackLink = ipfl, !.FallbackURL = ofl,
                      !.SocialImageLink = si] :
      afl \in {None, Some(<<>>), Some(BadURL), Some(GoodURL)},
      ifl \in {None, Some(BadURL)}, ipfl \in {None, Some(BadURL)},
      ofl \in {None, Some(BadURL)},
      si \in {None, Some(BadURL), Some(GoodURL)} }

\* the iTunes Connect analytics fields against isi and pt
ItunesLinks ==
  { [PlainLink EXCEPT !.IOSAppStoreId = isi, !.At = at, !.Ct = ct, !.Mt = mt, !.Pt = pt] :
      isi \in {None, Some(7)},
      at \in {None, Some(<<>>), Some(Token)},
      ct \in {None, Some(Token)}, mt \in {None, Some(Token)},
      pt \in {None, Some(<<>>), Some(Token)} }

\* fields of several normalization steps together
MixedLinks ==
  { [PlainLink EXCEPT !.AndroidPackageName = apn, !.IOSAppStoreId = isi,
                      !.IOSFallbackLink = ifl, !.SocialImageLink = si,
                      !.Mt = mt, !.Pt = pt] :
      apn \in {None, Some(<<>>), Some(<<"a","p","p">>)}, isi \in {None, Some(7)},
      ifl \in {None, Some(BadURL)}, si \in {None, Some(BadURL)},
      mt \in {None, Some(Token)}, pt \in {None, Some(Token)} }

\* hosts and target links that pass or fail the two required-field checks
RequiredFieldLinks ==
  { [PlainLink EXCEPT !.Host = host, !.Link = link, !.SocialImageLink = si] :
      host \in { <<>>, <<" ">>, <<"a"," ","b">>, <<" ","a",".","i","o"," ">>,
                 <<"h","t","t","p",":","/","/","a",".","i","o",":","8","/","p">> },
      link \in { LinkAllowed, LinkDenied, <<":">>, <<>>,
                 <<"h","t","t","p",":","/","/","A",".","I","O",":","8","0">> },
      si \in {None, Some(BadURL)} }

ValidationInputs ==
  { Args(Request(dl, option), None, cfg) :
      dl \in UrlLinks \cup ItunesLinks \cup MixedLinks \cup RequiredFieldLinks,
      option \in SuffixOptions, cfg \in DefaultsConfigs }

SeedInputs ==
  { Args(Request(PlainLink, SHORT), None, PlainConfig),
    Args(Request(PlainLink, SHORT), None, DefaultsConfig),
    Args(Request([PlainLink EXCEPT !.Host = <<>>], SHORT), None, PlainConfig) }

\* the first call of a behaviour
SeedCall ==
  /\ Started = 0
  /\ \E args \in SeedInputs : Run(1, args, pending)

\* the call under validation, entered when the first call has returned
ValidatedCall ==
  /\ Len(hist) = 1 /\ pending = {}
  /\ \E args \in ValidationInputs : Run(2, args, pending)

NextValidation == SeedCall \/ ValidatedCall \/ \E me \in pending : StoreLink(me)

ValidationSpec == Init /\ [][NextValidation]_vars

(***************************************************************************)
(* ComputeParamsHash applied to pairs of rows. The rows of a pair differ   *)
(* from a fixed row in at most MaxWindow adjacent fields of the hashed     *)
(* list.                                                                   *)
(***************************************************************************)
MaxWindow == 2

\* the fields ComputeParamsHash reads, in the order of its parts list
HashFields ==
  << "AndroidPackageName", "AndroidFallbackLink", "AndroidMinVersion",
     "IOSFallbackLink", "IOSIpadFallbackLink", "IOSAppStoreID",
     "SocialTitle", "SocialDescription", "SocialImageLink",
     "UtmSource", "UtmMedium", "UtmCampaign", "UtmTerm", "UtmContent",
     "ItunesPt", "ItunesAt", "ItunesCt", "ItunesMt", "OtherFallbackURL" >>

\* *string values: nil, empty, a letter, and the two bytes the canonical
\* form reserves
StringValues == <<None, Some(<<>>), Some(<<"a">>), Some(<<"NUL">>), Some(<<"SOH">>)>>

\* *int64 values
Int64Values == <<None, Some(1), Some(12)>>

FieldValues(k) == IF HashFields[k] = "IOSAppStoreID" THEN Int64Values ELSE StringValues

BaseRow == FromDurableLink(EmptyDurableLink, HostA, <<"a">>, FALSE, None)

\* the rows that differ from BaseRow in fields w .. w+MaxWindow-1 only
WindowRows(w) ==
  LET window == w..(w + MaxWindow - 1)
  IN  { [f \in DOMAIN BaseRow |->
           IF \E k \in window : HashFields[k] = f
           THEN LET k == CHOOSE k \in window : HashFields[k] = f
                IN  FieldValues(k)[pick[k]]
           ELSE BaseRow[f]] :
        pick \in { v \in [window -> 1..Len(StringValues)] :
                     \A k \in window : v[k] <= Len(FieldValues(k)) } }

InitHash ==
  /\ store = <<>> /\ pending = {} /\ hist = <<>>
  /\ \E w \in 1..(Len(HashFields) - MaxWindow + 1) :
       \E r1 \in WindowRows(w) : \E r2 \in WindowRows(w) :
          probe = [phase |-> "input", r1 |-> r1, r2 |-> r2,
                   canon1 |-> <<>>, canon2 |-> <<>>, hash1 |-> <<>>, hash2 |-> <<>>]

\* the canonical byte string and the digest of both rows
HashParams ==
  /\ probe.phase = "input"
  /\ probe' = [probe EXCEPT !.phase = "hashed",
                            !.canon1 = CanonicalParams(probe.r1),
                            !.canon2 = CanonicalParams(probe.r2),
                            !.hash1 = ComputeParamsHash(probe.r1),
                            !.hash2 = ComputeParamsHash(probe.r2)]
  /\ UNCHANGED <<store, pending, hist>>

HashSpec == InitHash /\ [][HashParams]_vars

(***************************************************************************)
(* Vocabulary of the properties                                            *)
(***************************************************************************)
Calls == 1..Len(hist)

Succeeded(r) == r.outcome \in {"Reused", "Created"}

\* the error came from the storage gateway and is not not-found
IsStorageError(err) ==
  \/ err = <<"db error">>
  \/ Len(err) = 2 /\ err[1] = "failed to store link: %w"

AskedShort(r) == ToUpper(r.args.params.Suffix.Option) = SHORT

CleanedHost(r) == CleanHost(r.args.params.DurableLinkInfo.Host).host

ShortLinkOf(r) == Deref(r.resp).ShortLink

WarningsOf(r) == Deref(r.resp).Warnings

\* call j entered CreateDurableLink after call i had returned
EnteredAfter(j, i) == i <= hist[j].seen

(***************************************************************************)
(* C1. A successful SHORT creation followed, after it has returned, by a   *)
(* call with the same tenant, configuration, host, target link and         *)
(* optional parameters: unless storage fails, the later call is Reused,    *)
(* returns the same short link and inserts no row.                         *)
(***************************************************************************)
C1_SecondShortCallReturnsSamePath ==
  \A i \in Calls : \A j \in Calls :
     ( /\ EnteredAfter(j, i)
       /\ AskedShort(hist[i]) /\ Succeeded(hist[i])
       /\ hist[j].args = hist[i].args
       /\ ~IsStorageError(hist[j].err) )
     => /\ hist[j].outcome = "Reused"
        /\ ShortLinkOf(hist[j]) = ShortLinkOf(hist[i])
        /\ hist[j].inserts = 0

(***************************************************************************)
(* C3. The path of a successful creation whose suffix resolves to          *)
(* UNGUESSABLE is backed by its own newly inserted row, flagged            *)
(* unguessable, and no other successful call on the same tenant and host   *)
(* returns that path.                                                      *)
(***************************************************************************)
C3_UnguessablePathNeverReturnedAgain ==
  \A i \in Calls :
     (Succeeded(hist[i]) /\ ~AskedShort(hist[i]))
     => /\ hist[i].outcome = "Created"
        /\ hist[i].inserts = 1
        /\ hist[i].rowID \in 1..Len(store)
        /\ store[hist[i].rowID].Path = hist[i].path
        /\ store[hist[i].rowID].IsUnguessablePath
        /\ \A j \in Calls \ {i} :
              ( /\ Succeeded(hist[j])
                /\ hist[j].args.projectID = hist[i].args.projectID
                /\ CleanedHost(hist[j]) = CleanedHost(hist[i]) )
              => /\ hist[j].path # hist[i].path
                 /\ ShortLinkOf(hist[j]) # ShortLinkOf(hist[i])
                 /\ hist[j].rowID # hist[i].rowID

\* two successful UNGUESSABLE creations with identical inputs, then a
\* successful SHORT creation on the same tenant and host
C3_Witness ==
  \E i \in Calls : \E j \in Calls : \E k \in Calls :
     /\ i < j /\ EnteredAfter(k, j)
     /\ ~AskedShort(hist[i]) /\ Succeeded(hist[i])
     /\ hist[j].args = hist[i].args /\ Succeeded(hist[j])
     /\ AskedShort(hist[k]) /\ Succeeded(hist[k])
     /\ hist[k].args.projectID = hist[i].args.projectID
     /\ CleanedHost(hist[k]) = CleanedHost(hist[i])

(***************************************************************************)
(* C4. At most one row with isUnguessablePath = false per                  *)
(* (tenantId, host, targetLink, paramsHash), in every reachable state.     *)
(***************************************************************************)
C4_OneGuessableRowPerLogicalLink ==
  \A i \in 1..Len(store) : \A j \in 1..Len(store) :
     ( /\ i # j
       /\ ~store[i].IsUnguessablePath /\ ~store[j].IsUnguessablePath
       /\ store[i].ProjectID = store[j].ProjectID
       /\ store[i].Host = store[j].Host
       /\ store[i].Link = store[j].Link )
     => store[i].ParamsHash # store[j].ParamsHash

(***************************************************************************)
(* Vocabulary of the properties about normalization                        *)
(***************************************************************************)
InfoOf(r) == r.args.params.DurableLinkInfo

ConfigOf(r) == r.args.tenantCfg

HostFails(r) == CleanHost(InfoOf(r).Host).err # ""

LinkNotAllowed(r) == ~IsDomainAllowed(ConfigOf(r).DomainAllowList, InfoOf(r).Link)

\* a value that is present, non-empty and not a well-formed URL
NonEmptyMalformed(v) == ~IsNil(v) /\ Deref(v) # <<>> /\ ~IsURL(Deref(v))

NilOrEmpty(v) == IsNil(v) \/ Deref(v) = <<>>

\* the five URL fields: name in the request, JSON name, name in the row
UrlFields ==
  << [req |-> "AndroidFallbackLink", json |-> "androidFallbackLink", row |-> "AndroidFallbackLink"],
     [req |-> "IOSFallbackLink",     json |-> "iosFallbackLink",     row |-> "IOSFallbackLink"],
     [req |-> "IOSIpadFallbackLink", json |-> "iosIpadFallbackLink", row |-> "IOSIpadFallbackLink"],
     [req |-> "FallbackURL",         json |-> "fallbackUrl",         row |-> "OtherFallbackURL"],
     [req |-> "SocialImageLink",     json |-> "socialImageLink",     row |-> "SocialImageLink"] >>

\* the iOS App Store ID is absent after the tenant default was applied
IsiAbsentAfterDefaults(r) ==
  IsNil(InfoOf(r).IOSAppStoreId) /\ IsNil(ConfigOf(r).DefaultIOSAppStoreId)

WithCode(warnings, code) == SelectSeq(warnings, LAMBDA w : w.WarningCode = code)

\* the number of warnings of the list that satisfy Test
CountWarnings(warnings, Test(_)) == Cardinality({k \in 1..Len(warnings) : Test(warnings[k])})

\* normalization of the request emits nothing: no default applies, no URL
\* field is malformed, no iTunes field is inconsistent, the suffix is valid
Quiet(r) ==
  /\ ~(IsNil(InfoOf(r).IOSAppStoreId) /\ ~IsNil(ConfigOf(r).DefaultIOSAppStoreId))
  /\ ~(IsNil(InfoOf(r).AndroidPackageName) /\ ~IsNil(ConfigOf(r).DefaultAndroidPackage))
  /\ \A f \in 1..Len(UrlFields) : ~NonEmptyMalformed(InfoOf(r)[UrlFields[f].req])
  /\ IsiAbsentAfterDefaults(r)
       => \A n \in {"At", "Ct", "Mt", "Pt"} : NilOrEmpty(InfoOf(r)[n])
  /\ NilOrEmpty(InfoOf(r).Pt)
       => \A n \in {"At", "Ct", "Mt"} : NilOrEmpty(InfoOf(r)[n])
  /\ ToUpper(r.args.params.Suffix.Option) \in {SHORT, UNGUESSABLE}

(***************************************************************************)
(* C2 as stated. Every call that ends in Reused returns an empty warnings  *)
(* list.                                                                   *)
(***************************************************************************)
C2_ReusedHasNoWarnings ==
  \A i \in Calls : hist[i].outcome = "Reused" => WarningsOf(hist[i]) = <<>>

(***************************************************************************)
(* C2, amended. A call that ends in Reused returns the warnings that       *)
(* normalization of its own request produced, as a creation would; the     *)
(* list is empty exactly when normalization emits nothing.                 *)
(***************************************************************************)
C2_ReusedCarriesNormalizationWarnings ==
  \A i \in Calls :
     hist[i].outcome = "Reused"
     => /\ WarningsOf(hist[i]) = Normalize(hist[i].args.params, ConfigOf(hist[i])).warnings
        /\ (WarningsOf(hist[i]) = <<>>) <=> Quiet(hist[i])

\* a reuse whose response reports an applied default and a cleared URL
C2_Witness ==
  \E i \in Calls :
     /\ hist[i].outcome = "Reused"
     /\ \E k \in 1..Len(WarningsOf(hist[i])) :
           WarningsOf(hist[i])[k].WarningCode = "DEFAULT_APPLIED"
     /\ \E k \in 1..Len(WarningsOf(hist[i])) :
           WarningsOf(hist[i])[k].WarningCode = "MALFORMED_PARAM"

(***************************************************************************)
(* C6. A call whose host cannot be cleaned, or whose target link is not    *)
(* in the allow-list, returns in the step it was entered (no lookup, no    *)
(* insert) with an error and a nil response, and the store is unchanged;   *)
(* when both checks would fail, the host error is the one reported.        *)
(***************************************************************************)
C6_RequiredFieldFailureTouchesNothing ==
  [][ Len(hist') = Len(hist) + 1
      => LET r == hist'[Len(hist')]
         IN  (HostFails(r) \/ LinkNotAllowed(r))
             => /\ r.outcome = "Failed"
                /\ r.err # <<>>
                /\ r.resp = None
                /\ r.lookups = 0 /\ r.inserts = 0
                /\ pending' = pending
                /\ store' = store
                /\ HostFails(r) => r.err[1] = "invalid host: %w"
                /\ ~HostFails(r) => r.err = <<"domain link not in allow list">> ]_vars

\* over a table holding one row: a call that fails both checks has returned
C6_Witness ==
  /\ Len(store) = 1
  /\ \E i \in Calls :
        /\ HostFails(hist[i]) /\ LinkNotAllowed(hist[i])
        /\ hist[i].outcome = "Failed"

(***************************************************************************)
(* C7. A call whose host can be cleaned and whose target link is allowed   *)
(* fails only with a storage error: otherwise it succeeds with a response  *)
(* and no error, whatever its optional parameters and suffix option.       *)
(***************************************************************************)
C7_OptionalFieldsNeverBlock ==
  \A i \in Calls :
     (~HostFails(hist[i]) /\ ~LinkNotAllowed(hist[i]) /\ ~IsStorageError(hist[i].err))
     => /\ Succeeded(hist[i])
        /\ hist[i].err = <<>>
        /\ ~IsNil(hist[i].resp)

\* a success with a malformed URL, an inconsistent iTunes field and an
\* invalid suffix option
C7_Witness ==
  \E i \in Calls :
     /\ Succeeded(hist[i])
     /\ NonEmptyMalformed(InfoOf(hist[i]).SocialImageLink)
     /\ ~NilOrEmpty(InfoOf(hist[i]).Mt) /\ IsNil(InfoOf(hist[i]).Pt)
     /\ ToUpper(hist[i].args.params.Suffix.Option) \notin {SHORT, UNGUESSABLE}
     /\ Len(WarningsOf(hist[i])) >= 3

(***************************************************************************)
(* C8. For each of the five URL fields: a successful call whose request    *)
(* carries a non-empty, not well-formed value returns exactly one          *)
(* MALFORMED_PARAM warning naming the field, and the row it creates has    *)
(* the field absent; no stored row holds a non-empty, not well-formed      *)
(* value in any of the five fields.                                        *)
(***************************************************************************)
C8_MalformedURLWarnedAndCleared ==
  /\ \A i \in Calls : \A f \in 1..Len(UrlFields) :
        (Succeeded(hist[i]) /\ NonEmptyMalformed(InfoOf(hist[i])[UrlFields[f].req]))
        => /\ CountWarnings(WarningsOf(hist[i]),
                LAMBDA w : /\ w.WarningCode = "MALFORMED_PARAM"
                           /\ w.WarningMessage[2] = UrlFields[f].json) = 1
           /\ hist[i].outcome = "Created"
                => IsNil(store[hist[i].rowID][UrlFields[f].row])
  /\ \A k \in 1..Len(store) : \A f \in 1..Len(UrlFields) :
        ~NonEmptyMalformed(store[k][UrlFields[f].row])

\* a creation whose request had a malformed value in each of the five fields
C8_Witness ==
  \E i \in Calls :
     /\ hist[i].outcome = "Created"
     /\ \A f \in 1..Len(UrlFields) : NonEmptyMalformed(InfoOf(hist[i])[UrlFields[f].req])

\* the normalization step a warning belongs to, 0 for a warning of no step
StepOf(w) ==
  IF w.WarningCode = "DEFAULT_APPLIED"
  THEN (IF w.WarningMessage[1] = "Using default iOS App Store ID: %d" THEN 1
        ELSE IF w.WarningMessage[1] = "Using default Android package name: %s" THEN 2
        ELSE 0)
  ELSE IF w.WarningCode = "MALFORMED_PARAM"
  THEN (IF \E f \in 1..Len(UrlFields) : UrlFields[f].json = w.WarningMessage[2]
        THEN 2 + (CHOOSE f \in 1..Len(UrlFields) : UrlFields[f].json = w.WarningMessage[2])
        ELSE 0)
  ELSE IF w.WarningCode = "UNRECOGNIZED_PARAM" THEN 8
  ELSE IF w.WarningCode = "INVALID_SUFFIX_OPTION" THEN 9
  ELSE 0

(***************************************************************************)
(* C9. In the warnings list of a successful call every warning belongs to  *)
(* a normalization step and no warning of a later step precedes one of an  *)
(* earlier step: default iOS App Store ID, default Android package,        *)
(* MALFORMED_PARAM for androidFallbackLink, iosFallbackLink,               *)
(* iosIpadFallbackLink, fallbackUrl, socialImageLink, UNRECOGNIZED_PARAM,  *)
(* INVALID_SUFFIX_OPTION.                                                  *)
(***************************************************************************)
C9_WarningsInStepOrder ==
  \A i \in Calls :
     Succeeded(hist[i])
     => LET w == WarningsOf(hist[i])
        IN  /\ \A k \in 1..Len(w) : StepOf(w[k]) \in 1..9
            /\ \A k \in 1..Len(w) : \A l \in 1..Len(w) :
                  k < l => StepOf(w[k]) <= StepOf(w[l])

\* a success whose warnings come from both defaults, two URL fields, the
\* cross-field checks and the suffix option
C9_Witness ==
  \E i \in Calls :
     /\ Succeeded(hist[i])
     /\ {StepOf(WarningsOf(hist[i])[k]) : k \in 1..Len(WarningsOf(hist[i]))}
          = {1, 2, 4, 7, 8, 9}

\* the UNRECOGNIZED_PARAM warning of one field under one missing parameter
Cites(name, missing) ==
  Warning("UNRECOGNIZED_PARAM",
          <<"Param '%s' is not needed, since '%s' is not specified.", name, missing>>)

\* the UNRECOGNIZED_PARAM warnings expected of a request, Given(v) telling
\* which values count as given
ExpectedUnrecognized(r, Given(_)) ==
  LET dl == InfoOf(r)
      one(name, field, missing) == IF Given(dl[field]) THEN <<Cites(name, missing)>> ELSE <<>>
  IN  (IF IsiAbsentAfterDefaults(r)
       THEN one("at", "At", "isi") \o one("ct", "Ct", "isi")
            \o one("mt", "Mt", "isi") \o one("pt", "Pt", "isi")
       ELSE <<>>)
      \o
      (IF NilOrEmpty(dl.Pt)
       THEN one("at", "At", "pt") \o one("ct", "Ct", "pt") \o one("mt", "Mt", "pt")
       ELSE <<>>)

(***************************************************************************)
(* C10 as stated. The UNRECOGNIZED_PARAM warnings of a successful call     *)
(* are: if isi is absent after defaults, one citing 'isi' for each of at,  *)
(* ct, mt, pt that is present (not nil); then, if pt is absent or empty,   *)
(* one citing 'pt' for each of at, ct, mt that is present (not nil).       *)
(***************************************************************************)
C10_UnrecognizedForEveryPresentField ==
  \A i \in Calls :
     Succeeded(hist[i])
     => WithCode(WarningsOf(hist[i]), "UNRECOGNIZED_PARAM")
          = ExpectedUnrecognized(hist[i], LAMBDA v : ~IsNil(v))

(***************************************************************************)
(* C10, amended. The same two lists, a field counting only when it is      *)
(* present and not the empty string; the two checks are not deduplicated.  *)
(***************************************************************************)
C10_UnrecognizedForEveryNonEmptyField ==
  \A i \in Calls :
     Succeeded(hist[i])
     => WithCode(WarningsOf(hist[i]), "UNRECOGNIZED_PARAM")
          = ExpectedUnrecognized(hist[i], LAMBDA v : ~NilOrEmpty(v))

\* isi and pt both absent, at the empty string, ct and mt given: ct and mt
\* are each warned twice, at not at all
C10_Witness ==
  \E i \in Calls :
     /\ Succeeded(hist[i])
     /\ IsiAbsentAfterDefaults(hist[i]) /\ IsNil(InfoOf(hist[i]).Pt)
     /\ InfoOf(hist[i]).At = Some(<<>>)
     /\ ~NilOrEmpty(InfoOf(hist[i]).Ct) /\ ~NilOrEmpty(InfoOf(hist[i]).Mt)
     /\ WithCode(WarningsOf(hist[i]), "UNRECOGNIZED_PARAM")
          = <<Cites("ct", "isi"), Cites("mt", "isi"), Cites("ct", "pt"), Cites("mt", "pt")>>

\* no value of a hashed field holds the byte 0x00 or the byte 0x01
FreeOfReservedBytes(row) ==
  \A k \in 1..Len(HashFields) :
     LET v == row[HashFields[k]]
     IN  (~IsNil(v) /\ HashFields[k] # "IOSAppStoreID")
         => \A n \in 1..Len(Deref(v)) : Deref(v)[n] \notin {"NUL", "SOH"}

\* every hashed field has the same value in both rows, nil differing from ""
SameOptionalFields(r1, r2) ==
  \A k \in 1..Len(HashFields) : r1[HashFields[k]] = r2[HashFields[k]]

(***************************************************************************)
(* C5. For rows whose optional values hold neither 0x00 nor 0x01, the      *)
(* canonical byte strings, and the hashes, of two rows are equal if and    *)
(* only if all 19 optional fields are equal, a nil field differing from a  *)
(* field holding the empty string.                                         *)
(***************************************************************************)
C5_CanonicalFormInjective ==
  (probe.phase = "hashed" /\ FreeOfReservedBytes(probe.r1) /\ FreeOfReservedBytes(probe.r2))
  => /\ Len(HashFields) = 19
     /\ (probe.canon1 = probe.canon2) <=> SameOptionalFields(probe.r1, probe.r2)
     /\ (probe.hash1 = probe.hash2) <=> SameOptionalFields(probe.r1, probe.r2)

\* two hashed rows that differ only in one field being nil in one and the
\* empty string in the other
C5_Witness ==
  /\ probe.phase = "hashed"
  /\ FreeOfReservedBytes(probe.r1) /\ FreeOfReservedBytes(probe.r2)
  /\ probe.hash1 # probe.hash2
  /\ \E k \in 1..Len(HashFields) :
        /\ probe.r1[HashFields[k]] = None
        /\ probe.r2[HashFields[k]] = Some(<<>>)
        /\ \A m \in 1..Len(HashFields) \ {k} :
              probe.r1[HashFields[m]] = probe.r2[HashFields[m]]

\* two strings equal up to the case of their letters
EqualFold(s, t) ==
  /\ Len(s) = Len(t)
  /\ \A k \in 1..Len(s) : ToLowerChar(s[k]) = ToLowerChar(t[k])

OptionOf(r) == r.args.params.Suffix.Option

\* the call passed the two required-field checks
Admitted(r) == ~HostFails(r) /\ ~LinkNotAllowed(r)

\* the call was handled as an UNGUESSABLE creation: no reuse lookup, a path
\* of the unguessable length, its own row flagged unguessable
HandledAsUnguessable(r) ==
  /\ r.lookups = 0
  /\ r.outcome # "Reused"
  /\ r.outcome = "Created"
       => /\ Len(r.path) = ConfigOf(r).UnguessablePathLength
          /\ store[r.rowID].IsUnguessablePath = TRUE

(***************************************************************************)
(* C11. The suffix option is matched whatever the case of its letters: a   *)
(* SHORT call makes the reuse lookup, creates guessable rows of the short  *)
(* length and gets no INVALID_SUFFIX_OPTION warning; an UNGUESSABLE call   *)
(* gets no such warning and is handled as unguessable; any other option,   *)
(* the empty string included, gets exactly one such warning and is handled *)
(* as unguessable too.                                                     *)
(***************************************************************************)
C11_SuffixOptionCaseInsensitive ==
  \A i \in Calls :
     Admitted(hist[i])
     => LET r == hist[i]
            n == IF Succeeded(r)
                 THEN Len(WithCode(WarningsOf(r), "INVALID_SUFFIX_OPTION"))
                 ELSE 0
        IN  IF EqualFold(OptionOf(r), SHORT)
            THEN /\ n = 0
                 /\ r.lookups = 1
                 /\ r.outcome = "Created"
                      => /\ Len(r.path) = ConfigOf(r).ShortPathLength
                         /\ store[r.rowID].IsUnguessablePath = FALSE
            ELSE IF EqualFold(OptionOf(r), UNGUESSABLE)
            THEN n = 0 /\ HandledAsUnguessable(r)
            ELSE /\ Succeeded(r) => n = 1
                 /\ HandledAsUnguessable(r)

\* the table holds a guessable row of a request, and the same request with
\* the empty option has created a second row
C11_Witness ==
  /\ Len(hist) = 2
  /\ hist[1].outcome = "Created"
  /\ InfoOf(hist[2]) = InfoOf(hist[1]) /\ ConfigOf(hist[2]) = ConfigOf(hist[1])
  /\ OptionOf(hist[2]) = <<>>
  /\ hist[2].outcome = "Created"
  /\ Len(WithCode(WarningsOf(hist[2]), "INVALID_SUFFIX_OPTION")) = 1

\* the caller omitted the field and the tenant configures a default for it
IsiDefaultDue(r) == IsNil(InfoOf(r).IOSAppStoreId) /\ ~IsNil(ConfigOf(r).DefaultIOSAppStoreId)

ApnDefaultDue(r) == IsNil(InfoOf(r).AndroidPackageName) /\ ~IsNil(ConfigOf(r).DefaultAndroidPackage)

\* the DEFAULT_APPLIED warnings of a response whose message has this format
DefaultApplied(r, format) ==
  SelectSeq(WarningsOf(r),
            LAMBDA w : w.WarningCode = "DEFAULT_APPLIED" /\ w.WarningMessage[1] = format)

(***************************************************************************)
(* C12. For the iOS App Store ID and for the Android package name: a       *)
(* successful call returns one DEFAULT_APPLIED warning for the field, and  *)
(* the row it creates holds the tenant's default, if and only if the       *)
(* caller omitted the field and the tenant configures a default; otherwise *)
(* there is no such warning and the row holds what the caller sent.  When  *)
(* the default App Store ID is applied, no warning says that isi is not    *)
(* specified.                                                              *)
(***************************************************************************)
C12_DefaultsOnlyForOmittedFields ==
  \A i \in Calls :
     Succeeded(hist[i])
     => LET r == hist[i]
        IN  /\ Len(DefaultApplied(r, "Using default iOS App Store ID: %d"))
                 = (IF IsiDefaultDue(r) THEN 1 ELSE 0)
            /\ Len(DefaultApplied(r, "Using default Android package name: %s"))
                 = (IF ApnDefaultDue(r) THEN 1 ELSE 0)
            /\ Len(WithCode(WarningsOf(r), "DEFAULT_APPLIED"))
                 = (IF IsiDefaultDue(r) THEN 1 ELSE 0) + (IF ApnDefaultDue(r) THEN 1 ELSE 0)
            /\ r.outcome = "Created"
                 => /\ store[r.rowID].IOSAppStoreID
                         = (IF IsiDefaultDue(r) THEN ConfigOf(r).DefaultIOSAppStoreId
                            ELSE InfoOf(r).IOSAppStoreId)
                    /\ store[r.rowID].AndroidPackageName
                         = (IF ApnDefaultDue(r) THEN ConfigOf(r).DefaultAndroidPackage
                            ELSE InfoOf(r).AndroidPackageName)
            /\ IsiDefaultDue(r)
                 => \A k \in 1..Len(WarningsOf(r)) :
                       WarningsOf(r)[k].WarningCode = "UNRECOGNIZED_PARAM"
                       => WarningsOf(r)[k].WarningMessage[3] # "isi"

\* under a tenant with both defaults: isi omitted with mt and pt given, the
\* package name sent as the empty string; the row has the default isi and
\* the empty package name
C12_Witness ==
  \E i \in Calls :
     /\ hist[i].outcome = "Created"
     /\ IsiDefaultDue(hist[i])
     /\ InfoOf(hist[i]).AndroidPackageName = Some(<<>>)
     /\ ~IsNil(ConfigOf(hist[i]).DefaultAndroidPackage)
     /\ ~NilOrEmpty(InfoOf(hist[i]).Mt) /\ ~NilOrEmpty(InfoOf(hist[i]).Pt)
     /\ store[hist[i].rowID].IOSAppStoreID = Some(42)
     /\ store[hist[i].rowID].AndroidPackageName = Some(<<>>)
     /\ Len(WithCode(WarningsOf(hist[i]), "DEFAULT_APPLIED")) = 1
     /\ WithCode(WarningsOf(hist[i]), "UNRECOGNIZED_PARAM") = <<>>

(***************************************************************************)
(* The resolver: removePreviewFromHost, GetLinkByHostAndPath and           *)
(* ResolveShortPath.  probe holds the last call of ResolveShortPath that   *)
(* returned.                                                               *)
(***************************************************************************)
Str_preview_dot == <<"p","r","e","v","i","e","w",".">>

Str_dash_preview == <<"-","p","r","e","v","i","e","w">>

\* strings.TrimSuffix / strings.TrimPrefix
TrimSuffix(s, suffix) ==
  IF HasSuffix(s, suffix) THEN SubSeq(s, 1, Len(s) - Len(suffix)) ELSE s

TrimPrefix(s, prefix) ==
  IF HasPrefix(s, prefix) THEN SubSeq(s, Len(prefix) + 1, Len(s)) ELSE s

\* the rewrite of the second branch: parts is strings.SplitN(host, ".", 2)
\* with len(parts) == 2
removePreviewFromLabel(first, rest) == TrimSuffix(first, Str_dash_preview) \o <<".">> \o rest

removePreviewFromHost_AnyPreviewPrefix(host) ==
  IF HasPrefix(host, <<"p","r","e","v","i","e","w">>)
  THEN SubSeq(host, Len(Str_preview_dot) + 1, Len(host))
  ELSE IF /\ Contains(host, <<".">>)
          /\ HasSuffix(CutBefore(host, <<".">>), Str_dash_preview)
       THEN removePreviewFromLabel(CutBefore(host, <<".">>), CutAfter(host, <<".">>))
       ELSE host

\* removePreviewFromHost
removePreviewFromHost(host) ==
  IF HasPrefix(host, Str_preview_dot)
  THEN TrimPrefix(host, Str_preview_dot)
  ELSE IF /\ Contains(host, <<".">>)
          /\ HasSuffix(CutBefore(host, <<".">>), Str_dash_preview)
       THEN removePreviewFromLabel(CutBefore(host, <<".">>), CutAfter(host, <<".">>))
       ELSE host

\* strings.Trim(s, "/")
TrimSlashes(s) ==
  LET keep == {i \in 1..Len(s) : s[i] # "/"}
  IN  IF keep = {} THEN <<>>
      ELSE SubSeq(s, CHOOSE i \in keep : \A j \in keep : i <= j,
                     CHOOSE i \in keep : \A j \in keep : i >= j)

RECURSIVE Split(_, _)
\* strings.Split(s, sep) for a non-empty sep
Split(s, sep) ==
  IF ~Contains(s, sep) THEN <<s>>
  ELSE <<CutBefore(s, sep)>> \o Split(CutAfter(s, sep), sep)

\* models.DurableLinkDB.ToDurableLink
ToDurableLink(db) ==
  [Host |-> db.Host, Link |-> db.Link,
   AndroidPackageName |-> db.AndroidPackageName,
   AndroidFallbackLink |-> db.AndroidFallbackLink,
   AndroidMinPackageVersionCode |-> db.AndroidMinVersion,
   IOSFallbackLink |-> db.IOSFallbackLink,
   IOSIpadFallbackLink |-> db.IOSIpadFallbackLink,
   IOSAppStoreId |-> db.IOSAppStoreID,
   FallbackURL |-> db.OtherFallbackURL,
   SocialTitle |-> db.SocialTitle,
   SocialDescription |-> db.SocialDescription,
   SocialImageLink |-> db.SocialImageLink,
   UtmSource |-> db.UtmSource, UtmMedium |-> db.UtmMedium,
   UtmCampaign |-> db.UtmCampaign, UtmTerm |-> db.UtmTerm,
   UtmContent |-> db.UtmContent,
   Pt |-> db.ItunesPt, At |-> db.ItunesAt, Ct |-> db.ItunesCt, Mt |-> db.ItunesMt]

ErrLinkNotFound == <<"link not found">>

ErrInvalidPathFormat == <<"path must contain exactly one segment">>

ErrInvalidRequestedLink == <<"invalid requested link">>

MatchingRows_AnyTenant(rows, host, path, projectID) ==
  {i \in 1..Len(rows) : rows[i].Host = host /\ rows[i].Path = path}

\* the rows the query of GetLinkByHostAndPath selects: host and path, and
\* the tenant only when the caller names one
MatchingRows(rows, host, path, projectID) ==
  {i \in 1..Len(rows) :
     /\ rows[i].Host = host
     /\ rows[i].Path = path
     /\ IsNil(projectID) \/ rows[i].ProjectID = projectID}

\* what First reads: the matching row with the lowest id, 0 when none
FirstRow(hits) == IF hits = {} THEN 0 ELSE CHOOSE i \in hits : \A j \in hits : i <= j

\* a call of ResolveShortPath returns; host and path are what it looked up,
\* queries the number of queries it sent, rowID the row it read
Resolved(rawURL, projectID, err, resp, queries, host, path, rowID) ==
  /\ probe' = [rawURL |-> rawURL, projectID |-> projectID, err |-> err,
               resp |-> resp, queries |-> queries, host |-> host,
               path |-> path, rowID |-> rowID]
  /\ UNCHANGED <<store, pending, hist>>

\* getLongLinkFromHostAndPath over GetLinkByHostAndPath, row being the row
\* First read
getLongLinkFromHostAndPath(rawURL, projectID, host, path, row) ==
  \/ /\ row # 0
     /\ Resolved(rawURL, projectID, <<>>,
                 Some([LongLink |-> ToDurableLink(store[row]).Link]),
                 1, host, path, row)
  \/ /\ row = 0
     /\ Resolved(rawURL, projectID, ErrLinkNotFound, None, 1, host, path, 0)
  \/ \* the query fails with a storage error other than not-found
     Resolved(rawURL, projectID, <<"db error">>, None, 1, host, path, 0)

validPathParts_FirstNonEmpty(pathParts) == pathParts[1] # <<>>

\* ResolveShortPath, line 244, negated
validPathParts(pathParts) == ~(Len(pathParts) # 1 \/ pathParts[1] = <<>>)

\* ResolveShortPath, lines 244-249
resolveParts(rawURL, projectID, normalizedHost, pathParts) ==
  IF ~validPathParts(pathParts)
  THEN Resolved(rawURL, projectID, ErrInvalidPathFormat, None, 0, normalizedHost, <<>>, 0)
  ELSE getLongLinkFromHostAndPath(
         rawURL, projectID, normalizedHost, pathParts[1],
         FirstRow(MatchingRows(store, normalizedHost, pathParts[1], projectID)))

\* ResolveShortPath, lines 238-243, u being what url.Parse returned
resolveParsed(rawURL, projectID, u) ==
  IF u.err
  THEN Resolved(rawURL, projectID, ErrInvalidRequestedLink, None, 0, <<>>, <<>>, 0)
  ELSE resolveParts(rawURL, projectID, removePreviewFromHost(u.Host),
                    Split(TrimSlashes(u.Path), <<"/">>))


\* linkService.ResolveShortPath
ResolveShortPath(rawURL, projectID) == resolveParsed(rawURL, projectID, Parse(rawURL))

(***************************************************************************)
(* Creations and resolutions over one table.  ResolveShortPath changes     *)
(* nothing in the table, so a behaviour is a run of creations followed by  *)
(* one call of ResolveShortPath: what any call returns is what this one    *)
(* returns on the table of that moment.                                    *)
(***************************************************************************)
MaxCreates == 2

HostPreviewA == Str_preview_dot \o HostA

HostAPreview == <<"a">> \o Str_dash_preview \o <<".", "i", "o">>

LinkOther == <<"h","t","t","p",":","/","/","a",".","i","o","/","u">>

\* the calls of CreateDurableLink: two tenants on one host with different
\* targets, and a host that begins with "preview."
ResolveCreateInputs ==
  { Args(Request(PlainLink, SHORT), None, PlainConfig),
    Args(Request([PlainLink EXCEPT !.Link = LinkOther], SHORT), Some("t1"), PlainConfig),
    Args(Request([PlainLink EXCEPT !.Host = HostPreviewA], SHORT), None, PlainConfig) }

ResolveHosts == {HostA, HostPreviewA, HostAPreview}

SinglePaths == {<<"/", "a">>, <<"/", "b">>, <<"/", "/", "a", "/">>}

OtherPaths == {<<>>, <<"/">>, <<"/", "a", "/", "b">>}

ResolveURL(host, path) == Str_https \o <<":", "/", "/">> \o host \o path

\* the URLs handed to ResolveShortPath: every host with every path, a URL
\* that does not parse and a bare segment
ResolveURLs ==
  {ResolveURL(h, p) : h \in ResolveHosts, p \in SinglePaths \cup OtherPaths}
    \cup {<<":">>, <<"a">>}

ResolveTenants == {None, Some("t1")}


CreateForResolve ==
  /\ DOMAIN probe = {}
  /\ Started < MaxCreates
  /\ \E args \in ResolveCreateInputs : Run(Started + 1, args, pending)

StoreForResolve ==
  /\ DOMAIN probe = {}
  /\ \E me \in pending : StoreLink(me)

Resolve ==
  /\ DOMAIN probe = {}
  /\ \E rawURL \in ResolveURLs, projectID \in ResolveTenants :
        ResolveShortPath(rawURL, projectID)

NextResolve == CreateForResolve \/ StoreForResolve \/ Resolve

ResolveSpec == Init /\ [][NextResolve]_vars

\* a call of ResolveShortPath has returned
HasResolved == DOMAIN probe # {}

\* the URLs of ResolveURLs whose path holds exactly one non-empty segment
\* between its leading and trailing slashes
SingleSegmentURLs == {ResolveURL(h, p) : h \in ResolveHosts, p \in SinglePaths} \cup {<<"a">>}

(***************************************************************************)
(* C13. A call of ResolveShortPath whose URL parses sends a query to the   *)
(* table if and only if the path of the URL, without its leading and       *)
(* trailing slashes, is exactly one non-empty segment; for every other     *)
(* path it sends no query and returns ErrInvalidPathFormat with a nil      *)
(* response.                                                               *)
(***************************************************************************)
C13_InvalidPathFormatWithoutQuery ==
  (HasResolved /\ probe.rawURL # <<":">>)
  => IF probe.rawURL \in SingleSegmentURLs
     THEN probe.queries = 1 /\ probe.err # ErrInvalidPathFormat
     ELSE probe.queries = 0 /\ probe.err = ErrInvalidPathFormat /\ IsNil(probe.resp)

\* over a table that holds the row of the path "a", a URL with the two
\* segments a and b was refused without a query
C13_Witness ==
  /\ HasResolved
  /\ probe.rawURL = ResolveURL(HostA, <<"/", "a", "/", "b">>)
  /\ probe.err = ErrInvalidPathFormat
  /\ probe.queries = 0
  /\ \E i \in 1..Len(store) : store[i].Host = HostA /\ store[i].Path = <<"a">>

(***************************************************************************)
(* removePreviewFromHost on its own, over the hosts of up to MaxLabels     *)
(* labels drawn from HostLabels.                                           *)
(***************************************************************************)
MaxLabels == 3

HostLabels ==
  { <<>>, <<"a">>, <<"p","r","e","v","i","e","w">>,
    <<"p","r","e","v","i","e","w","s">>,
    <<"n","o","t","p","r","e","v","i","e","w">>,
    <<"a">> \o Str_dash_preview, Str_dash_preview,
    <<"a">> \o Str_dash_preview \o <<"x">> }

RECURSIVE JoinDots(_)
\* the labels joined with "."
JoinDots(labels) ==
  IF Len(labels) = 1 THEN labels[1]
  ELSE labels[1] \o <<".">> \o JoinDots(Tail(labels))

InitPreview ==
  /\ store = <<>>
  /\ pending = {}
  /\ hist = <<>>
  /\ \E n \in 1..MaxLabels : \E labels \in [1..n -> HostLabels] :
        probe = [labels |-> labels, host |-> JoinDots(labels), out |-> None]

RemovePreview ==
  /\ IsNil(probe.out)
  /\ probe' = [probe EXCEPT !.out = Some(removePreviewFromHost(probe.host))]
  /\ UNCHANGED <<store, pending, hist>>

PreviewSpec == InitPreview /\ [][RemovePreview]_vars

(***************************************************************************)
(* C14. For a host given by its dot-separated labels: when there are at    *)
(* least two labels and the first is "preview", removePreviewFromHost      *)
(* returns the remaining labels; otherwise, when there are at least two    *)
(* labels and the first ends with "-preview", it returns the host with     *)
(* that ending cut from the first label; otherwise it returns the host     *)
(* unchanged.  The result is not rewritten a second time.                  *)
(***************************************************************************)
C14_RemovePreviewOneRewrite ==
  ~IsNil(probe.out)
  => LET labels == probe.labels
         first  == labels[1]
         cut    == Len(first) - Len(Str_dash_preview)
     IN  Deref(probe.out) =
           IF Len(labels) >= 2 /\ first = <<"p","r","e","v","i","e","w">>
           THEN JoinDots(Tail(labels))
           ELSE IF /\ Len(labels) >= 2
                   /\ cut >= 0
                   /\ SubSeq(first, cut + 1, Len(first)) = Str_dash_preview
                THEN JoinDots(<<SubSeq(first, 1, cut)>> \o Tail(labels))
                ELSE probe.host

\* "preview.a-preview.a" lost its prefix and kept the "-preview" of what is
\* now its first label
C14_Witness ==
  /\ probe.labels = << <<"p","r","e","v","i","e","w">>, <<"a">> \o Str_dash_preview, <<"a">> >>
  /\ probe.out = Some(<<"a">> \o Str_dash_preview \o <<".", "a">>)

\* the preview forms of a host: "preview." before it, or "-preview" after
\* its first label
PreviewForms(host) ==
  {Str_preview_dot \o host}
    \cup (IF Contains(host, <<".">>)
          THEN {CutBefore(host, <<".">>) \o Str_dash_preview \o <<".">> \o CutAfter(host, <<".">>)}
          ELSE {host \o Str_dash_preview})

\* the short link a successful call returned, and that link with its host
\* replaced by a preview form
FormsOfShortLink(r) ==
  {ShortLinkOf(r)}
    \cup {FullLink(ConfigOf(r).URLScheme, h, r.path) : h \in PreviewForms(CleanedHost(r))}

\* a call of ResolveShortPath returns in this step
ResolveStep == DOMAIN probe' # {} /\ UNCHANGED <<store, pending, hist>>

(***************************************************************************)
(* C15. When a call of ResolveShortPath returns without a storage error,   *)
(* and its URL is the short link of a successful call of CreateDurableLink *)
(* that had returned before, or that link with its host in a preview form, *)
(* and its tenant is the tenant of that call, then it returns the target   *)
(* link of that call.                                                      *)
(***************************************************************************)
C15_CreatedLinkResolves ==
  [][ResolveStep
     => \A i \in Calls :
           ( /\ Succeeded(hist[i])
             /\ probe'.rawURL \in FormsOfShortLink(hist[i])
             /\ probe'.projectID = hist[i].args.projectID
             /\ probe'.err # <<"db error">> )
           => probe'.resp = Some([LongLink |-> InfoOf(hist[i]).Link])]_vars

\* the segment of a path of SinglePaths
SegmentOf(p) == IF p = <<"/", "b">> THEN <<"b">> ELSE <<"a">>

\* the rows of host and path that a caller naming this tenant, or none, may
\* be given
RowsFor(host, path, projectID) ==
  {i \in 1..Len(store) :
     /\ store[i].Host = host
     /\ store[i].Path = path
     /\ projectID = None \/ store[i].ProjectID = projectID}

(***************************************************************************)
(* C16. When a call of ResolveShortPath returns without a storage error,   *)
(* its URL has one of the hosts a.io, preview.a.io and a-preview.io and a  *)
(* path of exactly one segment, and the table holds no row with the host   *)
(* a.io, that segment and, when the call names a tenant, that tenant, then *)
(* the call returns the error ErrLinkNotFound itself and a nil response,   *)
(* after one query.                                                        *)
(***************************************************************************)
C16_NotFoundUntranslated ==
  [][ResolveStep
     => \A h \in ResolveHosts, p \in SinglePaths :
           ( /\ probe'.rawURL = ResolveURL(h, p)
             /\ probe'.err # <<"db error">>
             /\ RowsFor(HostA, SegmentOf(p), probe'.projectID) = {} )
           => /\ probe'.err = ErrLinkNotFound
              /\ IsNil(probe'.resp)
              /\ probe'.queries = 1]_vars

\* tenant t1 asked for https://preview.a.io/a and was told that it is not
\* found, over a table whose only row of (a.io, a) has no tenant
C16_Witness ==
  /\ HasResolved
  /\ probe.rawURL = ResolveURL(HostPreviewA, <<"/", "a">>)
  /\ probe.projectID = Some("t1")
  /\ probe.err = ErrLinkNotFound
  /\ IsNil(probe.resp)
  /\ RowsFor(HostA, <<"a">>, Some("t1")) = {}
  /\ RowsFor(HostA, <<"a">>, None) # {}

\* a call of CreateDurableLink returns in this step
ReturnStep == Len(hist') = Len(hist) + 1

\* the call that returns in this step
Returning == hist'[Len(hist')]

(***************************************************************************)
(* C17. When a call of CreateDurableLink returns Failed after its reuse    *)
(* lookup and without an INSERT, the lookup having failed with a storage   *)
(* error, the call asked for a SHORT path, it returns the error of the     *)
(* storage as it is and a nil response, it has no path, it returns in the  *)
(* step of its lookup without having been in flight, and the table is the  *)
(* same before and after.                                                  *)
(***************************************************************************)
C17_LookupErrorIsFatal ==
  [][( /\ ReturnStep
       /\ Returning.outcome = "Failed"
       /\ Returning.lookups = 1
       /\ Returning.inserts = 0 )
     => /\ AskedShort(Returning)
        /\ Returning.err = <<"db error">>
        /\ IsNil(Returning.resp)
        /\ Returning.path = <<>>
        /\ Returning.rowID = 0
        /\ Started' = Started + 1
        /\ pending' = pending
        /\ store' = store]_vars

\* a SHORT call failed on its lookup over a table that already held a row
C17_Witness ==
  \E i \in Calls :
     /\ hist[i].outcome = "Failed"
     /\ hist[i].err = <<"db error">>
     /\ hist[i].lookups = 1
     /\ hist[i].inserts = 0
     /\ AskedShort(hist[i])
     /\ hist[i].seen >= 1
     /\ Len(store) >= 1

(***************************************************************************)
(* The generation of a path on its own: the suffix decision, the two       *)
(* lengths of the tenant and the bytes rand.Read delivers.                 *)
(***************************************************************************)
MaxPathLength == 2

\* bytes at the ends of each run of the alphabet and of each wrap of % 62
ByteValues == {0, 25, 26, 51, 52, 61, 62, 255}

InitPath ==
  /\ store = <<>>
  /\ pending = {}
  /\ hist = <<>>
  /\ \E shortPath \in BOOLEAN, short \in 0..MaxPathLength, long \in 0..MaxPathLength :
       \E random \in [1..MaxPathLength -> ByteValues] :
          probe = [shortPath |-> shortPath,
                   tenantCfg |-> [PlainConfig EXCEPT !.ShortPathLength = short,
                                                     !.UnguessablePathLength = long],
                   random |-> random, path |-> None]

\* createOrGetShortLink, lines 210-214: rand.Read fills `length` bytes
GeneratePath ==
  /\ IsNil(probe.path)
  /\ probe' = [probe EXCEPT !.path =
                 Some(generateDurableLinkPath(
                        SubSeq(probe.random, 1, pathLength(probe.shortPath, probe.tenantCfg))))]
  /\ UNCHANGED <<store, pending, hist>>

PathSpec == InitPath /\ [][GeneratePath]_vars

(***************************************************************************)
(* C18. A generated path has as many characters as the tenant's            *)
(* ShortPathLength when a short path was asked for and as its              *)
(* UnguessablePathLength otherwise, and each of its characters is one of   *)
(* a-z, A-Z and 0-9.                                                       *)
(***************************************************************************)
C18_PathLengthAndAlphabet ==
  ~IsNil(probe.path)
  => LET path == Deref(probe.path)
     IN  /\ Len(path) = (IF probe.shortPath THEN probe.tenantCfg.ShortPathLength
                         ELSE probe.tenantCfg.UnguessablePathLength)
         /\ \A i \in 1..Len(path) : path[i] \in LowerSet \cup UpperSet \cup DigitSet

\* a short path of one character under a tenant whose unguessable paths
\* have two, from the byte 255: 255 % 62 = 7, the letter h
C18_Witness ==
  /\ probe.shortPath
  /\ probe.tenantCfg.ShortPathLength = 1
  /\ probe.tenantCfg.UnguessablePathLength = 2
  /\ probe.random[1] = 255
  /\ probe.path = Some(<<"h">>)

(***************************************************************************)
(* utils.CleanHost on its own, applied to a raw host and then to its own   *)
(* result.                                                                 *)
(***************************************************************************)
RawPrefixes == {<<>>, <<"h","t","t","p","s",":","/","/">>, <<"h","t","t","p",":","/","/">>}

RawBodies ==
  {<<>>, HostA, <<"A", ".", "i", "o">>, HostA \o <<":", "8", "0">>, <<"a", " ", "b">>}

RawTails == {<<>>, <<"/", "p">>, <<"?", "q">>}

RawPadding == {<<>>, <<" ">>}

\* the raw hosts handed to CleanHost
RawHosts ==
  {pad \o prefix \o body \o tail \o pad :
     pad \in RawPadding, prefix \in RawPrefixes, body \in RawBodies, tail \in RawTails}

InitHost ==
  /\ store = <<>>
  /\ pending = {}
  /\ hist = <<>>
  /\ \E raw \in RawHosts : probe = [raw |-> raw, first |-> None, second |-> None]

\* CleanHost(raw)
CleanFirst ==
  /\ IsNil(probe.first)
  /\ probe' = [probe EXCEPT !.first = Some(CleanHost(probe.raw))]
  /\ UNCHANGED <<store, pending, hist>>

\* CleanHost on the host the first call returned
CleanAgain ==
  /\ ~IsNil(probe.first)
  /\ Deref(probe.first).err = ""
  /\ IsNil(probe.second)
  /\ probe' = [probe EXCEPT !.second = Some(CleanHost(Deref(probe.first).host))]
  /\ UNCHANGED <<store, pending, hist>>

NextHost == CleanFirst \/ CleanAgain

HostSpec == InitHost /\ [][NextHost]_vars

(***************************************************************************)
(* C19. When CleanHost succeeded on a raw host and was applied again to    *)
(* the host it returned, the second call succeeds too and returns the same *)
(* host.                                                                   *)
(***************************************************************************)
C19_CleanHostIdempotent ==
  ~IsNil(probe.second)
  => /\ Deref(probe.second).err = ""
     /\ Deref(probe.second).host = Deref(probe.first).host

(***************************************************************************)
(* utils.IsDomainAllowed on its own.  A candidate link is given by its     *)
(* scheme prefix, host, port and rest, an allow-list entry by its name and *)
(* the blanks around it.                                                   *)
(***************************************************************************)
MaxAllowList == 2

CandidatePrefixes == RawPrefixes

CandidateHosts ==
  { HostA, <<"A", ".", "I", "O">>, <<"b", ".">> \o HostA, <<"x">> \o HostA,
    HostA \o <<".", "b">>, <<"i", "o">> }

\* no port, a port, and a port that url.Parse refuses
CandidatePorts == {<<>>, <<":", "8", "0">>, <<":", "x">>}

CandidateTails == {<<>>, <<"/">> \o HostA}

EntryNames == {HostA, <<"A", ".", "i", "o">>, <<>>}

AllowEntries == [name : EntryNames, pad : RawPadding]

InitAllow ==
  /\ store = <<>>
  /\ pending = {}
  /\ hist = <<>>
  /\ \E n \in 0..MaxAllowList : \E entries \in [1..n -> AllowEntries] :
       \E prefix \in CandidatePrefixes, host \in CandidateHosts,
          port \in CandidatePorts, tail \in CandidateTails :
          probe = [entries |-> entries,
                   allowList |-> [i \in 1..n |->
                                    entries[i].pad \o entries[i].name \o entries[i].pad],
                   prefix |-> prefix, host |-> host, port |-> port,
                   rawLink |-> prefix \o host \o port \o tail,
                   out |-> None]

CheckAllowed ==
  /\ IsNil(probe.out)
  /\ probe' = [probe EXCEPT !.out = Some(IsDomainAllowed(probe.allowList, probe.rawLink))]
  /\ UNCHANGED <<store, pending, hist>>

AllowSpec == InitAllow /\ [][CheckAllowed]_vars

\* the candidate parses: without a scheme prefix its text up to the colon
\* is taken as a scheme; with one, the port must be empty or digits
CandidateParses == probe.prefix = <<>> \/ probe.port # <<":", "x">>

\* its hostname: the host after the scheme prefix, none without a prefix
CandidateHostname == IF probe.prefix = <<>> THEN <<>> ELSE probe.host

(***************************************************************************)
(* C20. IsDomainAllowed returns true if and only if the candidate parses   *)
(* and its hostname, without the port and in lower case, equals the name   *)
(* of some entry of the allow-list in lower case, the blanks around the    *)
(* name not counting; so a subdomain of an entry, a host that ends or      *)
(* starts with an entry, every candidate under the empty list and every    *)
(* candidate that does not parse are refused.                              *)
(***************************************************************************)
C20_AllowedIffExactHost ==
  ~IsNil(probe.out)
  => ( Deref(probe.out)
         <=> /\ CandidateParses
             /\ \E i \in 1..Len(probe.entries) :
                   ToLower(CandidateHostname) = ToLower(probe.entries[i].name) )

\* "https://A.IO:80/a.io" is allowed by the list of "" and " A.io "
C20_Witness ==
  /\ probe.rawLink = <<"h","t","t","p","s",":","/","/","A",".","I","O",":","8","0","/">> \o HostA
  /\ probe.allowList = << <<>>, <<" ", "A", ".", "i", "o", " ">> >>
  /\ probe.out = Some(TRUE)

(***************************************************************************)
(* Creations whose requests differ in one respect from a plain request:    *)
(* tenant, suffix option, raw host, target link, optional fields.  All run *)
(* under one tenant configuration with a default iOS App Store ID and      *)
(* paths of one character.                                                 *)
(***************************************************************************)
MaxReuseCalls == 2

ReuseConfig ==
  [EqualLengthConfig EXCEPT !.DefaultIOSAppStoreId = Some(42)]

\* "a.io" with blanks, a scheme, a port and a path around it
HostDressed ==
  <<" ">> \o Str_https \o <<":", "/", "/">> \o HostA \o <<":", "8", "/", "p", " ">>

LinkFtp == <<"f","t","p",":","/","/","a",".","i","o","/","t">>

ReuseLinks ==
  { PlainLink,
    [PlainLink EXCEPT !.Host = HostDressed],
    [PlainLink EXCEPT !.Link = LinkOther],
    [PlainLink EXCEPT !.Link = LinkFtp],
    [PlainLink EXCEPT !.IOSAppStoreId = Some(42)],
    [PlainLink EXCEPT !.IOSAppStoreId = Some(7)],
    [PlainLink EXCEPT !.IOSFallbackLink = Some(BadURL)] }

ReuseInputs ==
  { Args(Request(dl, SHORT), None, ReuseConfig) : dl \in ReuseLinks }
    \cup { Args(Request(PlainLink, SHORT), Some("t1"), ReuseConfig),
           Args(Request(PlainLink, UNGUESSABLE), None, ReuseConfig) }

CreateForReuse ==
  /\ Started < MaxReuseCalls
  /\ \E args \in ReuseInputs : Run(Started + 1, args, pending)

NextReuse == CreateForReuse \/ \E me \in pending : StoreLink(me)

ReuseSpec == Init /\ [][NextReuse]_vars

\* the hash a lookup computes for the normalized record of a call
NormalizedHash(r) ==
  ComputeParamsHash(
    FromDurableLink(Normalize(r.args.params, ConfigOf(r)).dl, <<>>, <<>>, FALSE, None))

\* row i agrees with the call on tenant, host, target link and hash, and is
\* a guessable row
SameLogicalLink(row, r) ==
  /\ row.ProjectID = r.args.projectID
  /\ row.Host = CleanedHost(r)
  /\ row.Link = InfoOf(r).Link
  /\ row.ParamsHash = NormalizedHash(r)
  /\ row.IsUnguessablePath = FALSE

(***************************************************************************)
(* C21. When a call of CreateDurableLink returns Reused, the table held,   *)
(* before the step, a row with the returned path whose tenant is the       *)
(* tenant of the request (none for a request without tenant), whose host   *)
(* is the cleaned host of the request, whose target link is that of the    *)
(* request, whose ParamsHash is the hash of the normalized record of the   *)
(* request and whose IsUnguessablePath is false.                           *)
(***************************************************************************)
C21_ReusedRowMatchesAllFive ==
  [][(ReturnStep /\ Returning.outcome = "Reused")
     => \E i \in 1..Len(store) :
           /\ store[i].Path = Returning.path
           /\ SameLogicalLink(store[i], Returning)]_vars

\* a request whose raw host is " https://a.io:8/p " was given the path of
\* the row that a request with the host "a.io" had created
C21_Witness ==
  /\ Len(hist) = 2
  /\ hist[2].outcome = "Reused"
  /\ hist[1].outcome = "Created"
  /\ hist[2].path = hist[1].path
  /\ InfoOf(hist[2]).Host = HostDressed
  /\ InfoOf(hist[1]).Host = HostA

\* no two rows of the table have the same tenant, host and path
NoDuplicateKeys(rows) ==
  \A i, j \in 1..Len(rows) :
     ( /\ rows[i].ProjectID = rows[j].ProjectID
       /\ rows[i].Host = rows[j].Host
       /\ rows[i].Path = rows[j].Path ) => i = j

\* the error of a call whose INSERT the table refused
ErrInsertRefused == <<"failed to store link: %w", "unique violation">>

(***************************************************************************)
(* C22. After every step no two rows of the table share tenant, host and   *)
(* path.  A call whose INSERT the table refuses returns Failed with the    *)
(* error of the table wrapped by "failed to store link", a nil response    *)
(* and no path, after a single INSERT, and the table is the same before    *)
(* and after.                                                              *)
(***************************************************************************)
C22_KeysUniqueAndCollisionFails ==
  [][/\ NoDuplicateKeys(store')
     /\ (ReturnStep /\ Returning.err = ErrInsertRefused)
        => /\ Returning.outcome = "Failed"
           /\ Returning.err[1] = "failed to store link: %w"
           /\ IsNil(Returning.resp)
           /\ Returning.path = <<>>
           /\ Returning.inserts = 1
           /\ store' = store]_vars

\* two rows with the path "a" under different tenants, and a third call
\* refused by the table
C22_Witness ==
  /\ Len(store) = 2
  /\ store[1].Path = store[2].Path
  /\ store[1].ProjectID # store[2].ProjectID
  /\ \E i \in Calls : hist[i].err = ErrInsertRefused /\ hist[i].inserts = 1

(***************************************************************************)
(* Termination.  A call in flight is a goroutine between its lookup and    *)
(* its INSERT; the scheduler runs it and the table answers, so the step    *)
(* that stores and returns is taken while some call is in flight.          *)
(***************************************************************************)
MaxFairCalls == 2

CreateFair ==
  /\ Started < MaxFairCalls
  /\ \E args \in EngineInputs : Run(Started + 1, args, pending)

StoreFair == \E me \in pending : StoreLink(me)

NextFair == CreateFair \/ StoreFair

FairSpec == Init /\ [][NextFair]_vars /\ WF_vars(StoreFair)

\* what the record of a returned call may look like
OneOutcome(r) ==
  /\ r.outcome \in {"Reused", "Created", "Failed"}
  /\ r.lookups \in {0, 1} /\ r.inserts \in {0, 1}
  /\ r.lookups = 1 => AskedShort(r)
  /\ r.outcome = "Reused" => (r.lookups = 1 /\ r.inserts = 0)
  /\ r.outcome = "Created" <=> (r.inserts = 1 /\ r.err = <<>>)
  /\ r.outcome = "Failed" <=> r.err # <<>>
  /\ r.outcome = "Failed" <=> IsNil(r.resp)
  /\ (r.outcome = "Failed" /\ r.inserts = 1)
       => (Len(r.err) = 2 /\ r.err[1] = "failed to store link: %w")

(***************************************************************************)
(* C23. Every call that has returned ended in Reused, Created or Failed,   *)
(* with a response exactly when it did not fail, after at most one lookup  *)
(* and at most one INSERT; it made a lookup only if it asked for a SHORT   *)
(* path, it made no INSERT when it reused a row, and a failed INSERT gave  *)
(* an error wrapped by "failed to store link".  A call in flight has made  *)
(* at most one lookup, and whenever calls are in flight a state follows in *)
(* which none is.                                                          *)
(***************************************************************************)
C23_EveryCallEndsOnce ==
  /\ [](\A i \in Calls : OneOutcome(hist[i]))
  /\ [](\A me \in pending : me.lookups \in {0, 1} /\ (me.lookups = 1 => me.shortPath))
  /\ (pending # {}) ~> (pending = {})

\* every call has returned: one created a row, another failed on its only
\* INSERT, made without a lookup
C23_Witness ==
  /\ pending = {}
  /\ \E i, j \in Calls :
        /\ hist[i].outcome = "Created"
        /\ hist[j].outcome = "Failed" /\ hist[j].inserts = 1 /\ hist[j].lookups = 0

\* every row of the table before the step is the same row after it
RowsKept == Len(store') >= Len(store) /\ SubSeq(store', 1, Len(store)) = store

(***************************************************************************)
(* C24. In every step the rows the table held are kept, field by field and *)
(* in their places.  A step in which ResolveShortPath returns, and a step  *)
(* in which CreateDurableLink returns Reused or Failed, leaves the table   *)
(* as it was; a step in which CreateDurableLink returns Created adds       *)
(* exactly one row; a step in which no call returns leaves the table as it *)
(* was.                                                                    *)
(***************************************************************************)
C24_StoreAppendOnly ==
  [][/\ RowsKept
     /\ DOMAIN probe' # DOMAIN probe => store' = store
     /\ (ReturnStep /\ Returning.outcome \in {"Reused", "Failed"}) => store' = store
     /\ (ReturnStep /\ Returning.outcome = "Created") => Len(store') = Len(store) + 1
     /\ ~ReturnStep => store' = store]_vars

\* ResolveShortPath returned a target link from a table of one row, after
\* calls that ended in Created and in Reused or Failed
C24_Witness ==
  /\ HasResolved
  /\ probe.err = <<>>
  /\ Len(store) = 1
  /\ Len(hist) = 2
  /\ hist[1].outcome = "Created"
  /\ hist[2].outcome \in {"Reused", "Failed"}

(***************************************************************************)
(* C25. The ParamsHash of every row of the table is ComputeParamsHash of   *)
(* the row itself and is not empty; and for the call that created the row  *)
(* it is the hash that FindExistingShortLink computes from the normalized  *)
(* record of that call, on a record without host, path and tenant.         *)
(***************************************************************************)
C25_StoredHashIsComputed ==
  /\ \A i \in 1..Len(store) :
        /\ store[i].ParamsHash = ComputeParamsHash(store[i])
        /\ store[i].ParamsHash # <<>>
  /\ \A k \in Calls :
        hist[k].outcome = "Created"
        => store[hist[k].rowID].ParamsHash = NormalizedHash(hist[k])

\* a row created from a request that omitted isi holds the hash of the
\* record with the tenant's default isi, which a later request with that
\* isi given was matched against
C25_Witness ==
  /\ Len(hist) = 2
  /\ hist[1].outcome = "Created"
  /\ IsNil(InfoOf(hist[1]).IOSAppStoreId)
  /\ store[hist[1].rowID].IOSAppStoreID = Some(42)
  /\ hist[2].outcome = "Reused"
  /\ InfoOf(hist[2]).IOSAppStoreId = Some(42)
  /\ store[hist[1].rowID].ParamsHash = NormalizedHash(hist[2])

(***************************************************************************)
(* ComputeParamsHash applied to two rows with the same optional fields:    *)
(* the second row takes every field the hash is not meant to read from a   *)
(* set of two values.                                                      *)
(***************************************************************************)
\* rows that differ from BaseRow in two of the hashed fields
OptionalRows ==
  { [BaseRow EXCEPT !.AndroidPackageName = StringValues[a], !.IOSAppStoreID = Int64Values[n]] :
      a \in 1..Len(StringValues), n \in 1..Len(Int64Values) }

\* the row with its other fields replaced
Reframed(row, host, path, link, unguessable, projectID, id, hash) ==
  [row EXCEPT !.Host = host, !.Path = path, !.Link = link,
              !.IsUnguessablePath = unguessable, !.ProjectID = projectID,
              !.ID = id, !.ParamsHash = hash]

InitFrame ==
  /\ store = <<>> /\ pending = {} /\ hist = <<>>
  /\ \E row \in OptionalRows :
       \E host \in {HostA, <<>>}, path \in {<<"a">>, <<>>}, link \in {LinkAllowed, LinkOther},
          unguessable \in BOOLEAN, projectID \in {None, Some("t1")}, id \in {0, 1},
          hash \in {<<>>, <<"x">>} :
          probe = [phase |-> "input", r1 |-> row,
                   r2 |-> Reframed(row, host, path, link, unguessable, projectID, id, hash),
                   hash1 |-> <<>>, hash2 |-> <<>>, again |-> <<>>]

\* ComputeParamsHash of the first row, of the second, and of the first again
HashFramed ==
  /\ probe.phase = "input"
  /\ probe' = [probe EXCEPT !.phase = "hashed",
                            !.hash1 = ComputeParamsHash(probe.r1),
                            !.hash2 = ComputeParamsHash(probe.r2),
                            !.again = ComputeParamsHash(probe.r1)]
  /\ UNCHANGED <<store, pending, hist>>

FrameSpec == InitFrame /\ [][HashFramed]_vars

NormalizedRecord(r) == Normalize(r.args.params, ConfigOf(r)).dl

\* two calls ask for a SHORT path for the same logical link: same tenant
\* and configuration, same cleaned host, target link and normalized record
SameNormalizedRequest(r1, r2) ==
  /\ AskedShort(r1) /\ AskedShort(r2)
  /\ r1.args.projectID = r2.args.projectID
  /\ ConfigOf(r1) = ConfigOf(r2)
  /\ CleanedHost(r1) = CleanedHost(r2)
  /\ InfoOf(r1).Link = InfoOf(r2).Link
  /\ NormalizedRecord(r1) = NormalizedRecord(r2)

(***************************************************************************)
(* C27. Two successful SHORT calls of CreateDurableLink under the same     *)
(* tenant and configuration whose cleaned hosts, target links and          *)
(* normalized records are equal return the same path, whether or not the   *)
(* raw requests are equal.                                                 *)
(***************************************************************************)
C27_ReuseOnNormalizedRequest ==
  \A i, j \in Calls :
     ( /\ Succeeded(hist[i]) /\ Succeeded(hist[j])
       /\ SameNormalizedRequest(hist[i], hist[j]) )
     => hist[i].path = hist[j].path

\* utils.ValidateURLScheme: TRUE when it returns nil
ValidateURLScheme(urlStr) ==
  /\ ~Parse(urlStr).err
  /\ Parse(urlStr).Scheme \in {<<"h", "t", "t", "p">>, Str_https}

(***************************************************************************)
(* C28. Every row inserted by CreateDurableLink has a target link that is  *)
(* an absolute URL with scheme http or https.                              *)
(***************************************************************************)
C28_StoredLinkIsHttp ==
  \A id \in DOMAIN store : ValidateURLScheme(store[id].Link)

(***************************************************************************)
(* C29. A call of ResolveShortPath that returns a target link read it from *)
(* a row stored under exactly the tenant the call named, and from a row    *)
(* stored without a tenant when the call named none.                       *)
(***************************************************************************)
C29_ResolveWithinTenant ==
  (HasResolved /\ probe.rowID # 0)
    => store[probe.rowID].ProjectID = probe.projectID

----------------------------------------------------------------------------
(* ByteSpec: the image of every byte value under generateDurableLinkPath,  *)
(* tallied one byte value at a time.                                       *)

\* the values of one byte rand.Read may produce
AllBytes == 0..255

Symbols == {Alphanumeric[i] : i \in 1..Len(Alphanumeric)}

InitByte ==
  /\ store = <<>>
  /\ pending = {}
  /\ hist = <<>>
  /\ probe = [next |-> 0, images |-> [s \in Symbols |-> 0]]

\* generateDurableLinkPath, lines 260-262, on the one byte probe.next
MapByte ==
  /\ probe.next \in AllBytes
  /\ probe' = [next |-> probe.next + 1,
               images |-> [probe.images EXCEPT
                             ![generateDurableLinkPath(<<probe.next>>)[1]] = @ + 1]]
  /\ UNCHANGED <<store, pending, hist>>

ByteSpec == InitByte /\ [][MapByte]_vars

(***************************************************************************)
(* C30. Once every byte value 0..255 has been mapped, each of the 62       *)
(* symbols is the image of the same number of byte values.                 *)
(***************************************************************************)
C30_SymbolsEquallyOften ==
  (probe.next \notin AllBytes)
    => \A s, t \in Symbols : probe.images[s] = probe.images[t]

====
